---- MODULE Spec2Model ----
(***************************************************************************)
(* Binance Futures REST connector: the Futures client facade               *)
(* (src/src/futures.js) and its endpoint modules Account, Trade and Market *)
(* (src/unnamed/part_000, src/unnamed/part_001).                           *)
(*                                                                         *)
(* Every endpoint method is a synchronous request builder: it validates    *)
(* its required parameters, upper-cases symbol-like arguments, merges them *)
(* into the caller's options object with Object.assign and hands           *)
(* (verb, path, params) to this.publicRequest or this.signRequest.  One    *)
(* method call is one atomic step of the model.                            *)
(***************************************************************************)
EXTENDS Integers, Sequences, FiniteSets, TLC

(***************************************************************************)
(* Bounds of the model.                                                    *)
(***************************************************************************)
\* How many calls in a row may be given the same options object.
MaxUses == 2
\* Longest batchOrders array a caller passes.
MaxBatch == 2

(***************************************************************************)
(* JavaScript values.  A string is the sequence of its character codes, so *)
(* that toUpperCase is computed and not assumed.  s holds the codes of a   *)
(* string, the number of a number or the address of an array of objects;   *)
(* a holds the elements of an array of strings.                            *)
(***************************************************************************)
Undefined == [t |-> "undefined", s |-> <<>>, a |-> <<>>]

Null == [t |-> "null", s |-> <<>>, a |-> <<>>]

Str(codes) == [t |-> "string", s |-> codes, a |-> <<>>]

Num(n) == [t |-> "number", s |-> <<n>>, a |-> <<>>]

Arr(strings) == [t |-> "array", s |-> <<>>, a |-> strings]

\* A reference to the caller's batchOrders array (arrays are passed by reference).
Ref(addr) == [t |-> "ref", s |-> <<addr>>, a |-> <<>>]

\* String.prototype.toUpperCase on ASCII: a..z (97..122) become A..Z (65..90).
UpperCode(c) == IF c >= 97 /\ c <= 122 THEN c - 32 ELSE c

ToUpperCase(codes) == [i \in 1..Len(codes) |-> UpperCode(codes[i])]

\* JavaScript truthiness, as used by the || operator.
Falsy(v) ==
  \/ v.t \in {"undefined", "null"}
  \/ v.t = "string" /\ v.s = <<>>
  \/ v.t = "number" /\ v.s = <<0>>

(***************************************************************************)
(* Plain objects are ordered maps: a sequence of [k, v] entries in         *)
(* insertion order, as JavaScript keeps own string keys.                   *)
(***************************************************************************)
Keys(o) == {o[i].k : i \in 1..Len(o)}

Has(o, key) == \E i \in 1..Len(o) : o[i].k = key

Get(o, key) ==
  IF Has(o, key) THEN o[CHOOSE i \in 1..Len(o) : o[i].k = key].v ELSE Undefined

\* o[key] = v: an existing key keeps its position, a new key is appended.
Set(o, key, v) ==
  IF Has(o, key)
  THEN [i \in 1..Len(o) |-> IF o[i].k = key THEN [k |-> key, v |-> v] ELSE o[i]]
  ELSE Append(o, [k |-> key, v |-> v])

\* Mutant: a key the target already has keeps the target's value.
RECURSIVE ObjectAssignKeep(_, _)
ObjectAssignKeep(target, source) ==
  IF source = <<>> THEN target
  ELSE ObjectAssignKeep(IF Has(target, Head(source).k) THEN target
                        ELSE Append(target, Head(source)),
                        Tail(source))

\* Mutant: keys the target does not have yet are put in front of it.
ObjectAssignFront(target, source) ==
  SelectSeq(source, LAMBDA e : ~Has(target, e.k)) \o
  [i \in 1..Len(target) |->
     IF Has(source, target[i].k)
     THEN [k |-> target[i].k, v |-> Get(source, target[i].k)]
     ELSE target[i]]

RECURSIVE ObjectAssign(_, _)
\* Object.assign(target, source): copies the source's entries in order.
ObjectAssign(target, source) ==
  IF source = <<>> THEN target
  ELSE ObjectAssign(Set(target, Head(source).k, Head(source).v), Tail(source))

(***************************************************************************)
(* helpers/validation: validateRequiredParameters.  A parameter is missing *)
(* when its value is undefined, null or the empty string.                  *)
(***************************************************************************)
isEmptyValue(v) ==
  \/ v.t \in {"undefined", "null"}
  \/ v.t = "string" /\ v.s = <<>>

\* The names validateRequiredParameters reports; it throws
\* MissingParameterError exactly when this set is not empty.
validateRequiredParameters(paramObject) ==
  {paramObject[i].k : i \in {j \in 1..Len(paramObject) : isEmptyValue(paramObject[j].v)}}

(***************************************************************************)
(* The endpoint modules.  A class body is the sequence of its method       *)
(* definitions in source order.  Per method: the declared positional       *)
(* parameters (params), whether it declares an options parameter (opt),    *)
(* the identifiers given to validateRequiredParameters (validate; each for *)
(* the fields validated per batchOrders element), the dispatcher it calls  *)
(* (via) with verb and path, how the params argument is built (shape) and  *)
(* from which identifiers (assign; up marks .toUpperCase()), and what the  *)
(* documentation comment above it states (docVerb, docPath, docReq).       *)
(***************************************************************************)
Account ==
  <<
  [name |-> "futuresAccountBalanceV3", line |-> 91, params |-> <<>>, opt |-> FALSE,
   each |-> <<>>, validate |-> <<"timestamp">>,
   via |-> "publicRequest", verb |-> "GET", path |-> "/fapi/v3/balance", shape |-> "assign",
   assign |-> <<[k |-> "timestamp", id |-> "timestamp", up |-> FALSE]>>,
   docVerb |-> "GET", docPath |-> "/fapi/v3/balance", docReq |-> <<"timestamp">>],
  [name |-> "futuresAccountBalanceV2", line |-> 113, params |-> <<>>, opt |-> FALSE,
   each |-> <<>>, validate |-> <<"timestamp">>,
   via |-> "publicRequest", verb |-> "GET", path |-> "/fapi/v2/balance", shape |-> "assign",
   assign |-> <<[k |-> "timestamp", id |-> "timestamp", up |-> FALSE]>>,
   docVerb |-> "GET", docPath |-> "/fapi/v2/balance", docReq |-> <<"timestamp">>],
  [name |-> "accountInformationV3", line |-> 135, params |-> <<>>, opt |-> FALSE,
   each |-> <<>>, validate |-> <<"timestamp">>,
   via |-> "publicRequest", verb |-> "GET", path |-> "/fapi/v3/account", shape |-> "assign",
   assign |-> <<[k |-> "timestamp", id |-> "timestamp", up |-> FALSE]>>,
   docVerb |-> "GET", docPath |-> "/fapi/v3/account", docReq |-> <<"timestamp">>],
  [name |-> "accountInformationV2", line |-> 157, params |-> <<>>, opt |-> FALSE,
   each |-> <<>>, validate |-> <<"timestamp">>,
   via |-> "publicRequest", verb |-> "GET", path |-> "/fapi/v2/account", shape |-> "assign",
   assign |-> <<[k |-> "timestamp", id |-> "timestamp", up |-> FALSE]>>,
   docVerb |-> "GET", docPath |-> "/fapi/v2/account", docReq |-> <<"timestamp">>],
  [name |-> "userComissionRate", line |-> 180, params |-> <<>>, opt |-> FALSE,
   each |-> <<>>, validate |-> <<"symbol", "timestamp">>,
   via |-> "publicRequest", verb |-> "GET", path |-> "/fapi/v1/commissionRate", shape |-> "assign",
   assign |-> <<[k |-> "symbol", id |-> "symbol", up |-> TRUE], [k |-> "timestamp", id |-> "timestamp", up |-> FALSE]>>,
   docVerb |-> "GET", docPath |-> "/fapi/v1/commissionRate", docReq |-> <<"symbol", "timestamp">>],
  [name |-> "futuresAccountConfiguration", line |-> 203, params |-> <<>>, opt |-> FALSE,
   each |-> <<>>, validate |-> <<"timestamp">>,
   via |-> "publicRequest", verb |-> "GET", path |-> "/fapi/v1/accountConfig", shape |-> "assign",
   assign |-> <<[k |-> "timestamp", id |-> "timestamp", up |-> FALSE]>>,
   docVerb |-> "GET", docPath |-> "/fapi/v1/accountConfig", docReq |-> <<"timestamp">>],
  [name |-> "futuresSymbolConfiguration", line |-> 226, params |-> <<>>, opt |-> FALSE,
   each |-> <<>>, validate |-> <<"timestamp">>,
   via |-> "publicRequest", verb |-> "GET", path |-> "/fapi/v1/symbolConfig", shape |-> "assign",
   assign |-> <<[k |-> "symbol", id |-> "symbol", up |-> TRUE], [k |-> "timestamp", id |-> "timestamp", up |-> FALSE]>>,
   docVerb |-> "GET", docPath |-> "/fapi/v1/symbolConfig", docReq |-> <<"symbol", "timestamp">>],
  [name |-> "queryOrderRateLimit", line |-> 249, params |-> <<>>, opt |-> FALSE,
   each |-> <<>>, validate |-> <<"timestamp">>,
   via |-> "publicRequest", verb |-> "GET", path |-> "/fapi/v1/rateLimit/order", shape |-> "assign",
   assign |-> <<[k |-> "symbol", id |-> "symbol", up |-> TRUE], [k |-> "timestamp", id |-> "timestamp", up |-> FALSE]>>,
   docVerb |-> "GET", docPath |-> "/fapi/v1/rateLimit/order", docReq |-> <<"timestamp">>],
  [name |-> "leverageBracket", line |-> 273, params |-> <<>>, opt |-> FALSE,
   each |-> <<>>, validate |-> <<"timestamp">>,
   via |-> "publicRequest", verb |-> "GET", path |-> "/fapi/v1/leverageBracket", shape |-> "assign",
   assign |-> <<[k |-> "timestamp", id |-> "timestamp", up |-> FALSE]>>,
   docVerb |-> "GET", docPath |-> "/fapi/v1/leverageBracket", docReq |-> <<"timestamp">>],
  [name |-> "multiAssetMargin", line |-> 295, params |-> <<>>, opt |-> FALSE,
   each |-> <<>>, validate |-> <<"timestamp">>,
   via |-> "publicRequest", verb |-> "GET", path |-> "/fapi/v1/multiAssetsMargin", shape |-> "assign",
   assign |-> <<[k |-> "timestamp", id |-> "timestamp", up |-> FALSE]>>,
   docVerb |-> "GET", docPath |-> "/fapi/v1/multiAssetsMargin", docReq |-> <<"timestamp">>],
  [name |-> "currentPositionMode", line |-> 317, params |-> <<>>, opt |-> FALSE,
   each |-> <<>>, validate |-> <<"timestamp">>,
   via |-> "publicRequest", verb |-> "GET", path |-> "/fapi/v1/positionSide/dual", shape |-> "assign",
   assign |-> <<[k |-> "timestamp", id |-> "timestamp", up |-> FALSE]>>,
   docVerb |-> "GET", docPath |-> "/fapi/v1/positionSide/dual", docReq |-> <<"timestamp">>],
  [name |-> "getIncomeHistory", line |-> 345, params |-> <<>>, opt |-> FALSE,
   each |-> <<>>, validate |-> <<"timestamp">>,
   via |-> "publicRequest", verb |-> "GET", path |-> "/fapi/v1/income", shape |-> "assign",
   assign |-> <<[k |-> "timestamp", id |-> "timestamp", up |-> FALSE]>>,
   docVerb |-> "GET", docPath |-> "/fapi/v1/income", docReq |-> <<"timestamp">>],
  [name |-> "apiTradingStatus", line |-> 368, params |-> <<>>, opt |-> FALSE,
   each |-> <<>>, validate |-> <<"timestamp">>,
   via |-> "publicRequest", verb |-> "GET", path |-> "/fapi/v1/apiTradingStatus", shape |-> "assign",
   assign |-> <<[k |-> "timestamp", id |-> "timestamp", up |-> FALSE]>>,
   docVerb |-> "GET", docPath |-> "/fapi/v1/apiTradingStatus", docReq |-> <<"timestamp">>],
  [name |-> "getDownloadIdTransactionHistory", line |-> 392, params |-> <<>>, opt |-> FALSE,
   each |-> <<>>, validate |-> <<"startTime", "endTime", "timestamp">>,
   via |-> "publicRequest", verb |-> "GET", path |-> "/fapi/v1/income/asyn", shape |-> "assign",
   assign |-> <<[k |-> "startTime", id |-> "startTime", up |-> FALSE], [k |-> "endTime", id |-> "endTime", up |-> FALSE], [k |-> "timestamp", id |-> "timestamp", up |-> FALSE]>>,
   docVerb |-> "GET", docPath |-> "/fapi/v1/income/asyn", docReq |-> <<"startTime", "endTime", "timestamp">>]
  >>

Trade ==
  <<
  [name |-> "newOrder", line |-> 459, params |-> <<"symbol", "side", "type", "timestamp">>, opt |-> TRUE,
   each |-> <<>>, validate |-> <<"symbol", "side", "type", "timestamp">>,
   via |-> "signRequest", verb |-> "POST", path |-> "/fapi/v1/order", shape |-> "assign",
   assign |-> <<[k |-> "symbol", id |-> "symbol", up |-> TRUE], [k |-> "side", id |-> "side", up |-> TRUE], [k |-> "type", id |-> "type", up |-> TRUE], [k |-> "timestamp", id |-> "timestamp", up |-> FALSE]>>,
   docVerb |-> "POST", docPath |-> "/fapi/v1/order", docReq |-> <<"symbol", "side", "type", "timestamp">>],
  [name |-> "placeMultipleOrder", line |-> 487, params |-> <<"batchOrders", "timestamp">>, opt |-> TRUE,
   each |-> <<"symbol", "side", "type", "quantity">>, validate |-> <<"timestamp">>,
   via |-> "signRequest", verb |-> "POST", path |-> "/fapi/v1/batchOrders", shape |-> "batch",
   assign |-> <<[k |-> "batchOrders", id |-> "batchOrders", up |-> FALSE], [k |-> "timestamp", id |-> "timestamp", up |-> FALSE]>>,
   docVerb |-> "POST", docPath |-> "/fapi/v1/batchOrders", docReq |-> <<"batchOrders", "timestamp">>],
  [name |-> "modifyOrder", line |-> 523, params |-> <<"symbol", "side", "number", "price", "timestamp">>, opt |-> TRUE,
   each |-> <<>>, validate |-> <<"symbol", "side", "number", "price", "timestamp">>,
   via |-> "signRequest", verb |-> "PUT", path |-> "/fapi/v1/order", shape |-> "assign",
   assign |-> <<[k |-> "symbol", id |-> "symbol", up |-> TRUE], [k |-> "side", id |-> "side", up |-> TRUE], [k |-> "number", id |-> "number", up |-> FALSE], [k |-> "price", id |-> "price", up |-> FALSE], [k |-> "timestamp", id |-> "timestamp", up |-> FALSE]>>,
   docVerb |-> "PUT", docPath |-> "/fapi/v1/order", docReq |-> <<"symbol", "side", "quantity", "price", "timestamp">>],
  [name |-> "modifyMultipleOrder", line |-> 551, params |-> <<"batchOrders", "timestamp">>, opt |-> TRUE,
   each |-> <<"symbol", "side", "quantity", "price", "timestamp">>, validate |-> <<"timestamp">>,
   via |-> "signRequest", verb |-> "PUT", path |-> "/fapi/v1/batchOrders", shape |-> "batch",
   assign |-> <<[k |-> "batchOrders", id |-> "batchOrders", up |-> FALSE], [k |-> "timestamp", id |-> "timestamp", up |-> FALSE]>>,
   docVerb |-> "PUT", docPath |-> "/fapi/v1/batchOrders", docReq |-> <<"batchOrders", "timestamp">>],
  [name |-> "orderModifyHistory", line |-> 591, params |-> <<"symbol", "timestamp">>, opt |-> TRUE,
   each |-> <<>>, validate |-> <<"symbol", "timestamp">>,
   via |-> "publicRequest", verb |-> "GET", path |-> "/fapi/v1/orderAmendment", shape |-> "assign",
   assign |-> <<[k |-> "symbol", id |-> "symbol", up |-> TRUE], [k |-> "timestamp", id |-> "timestamp", up |-> FALSE]>>,
   docVerb |-> "GET", docPath |-> "/fapi/v1/orderAmendment", docReq |-> <<"symbol", "timestamp">>],
  [name |-> "cancelOrder", line |-> 617, params |-> <<"symbol", "timestamp">>, opt |-> TRUE,
   each |-> <<>>, validate |-> <<"symbol", "timestamp">>,
   via |-> "signRequest", verb |-> "DELETE", path |-> "/fapi/v1/order", shape |-> "assign",
   assign |-> <<[k |-> "symbol", id |-> "symbol", up |-> TRUE], [k |-> "timestamp", id |-> "timestamp", up |-> FALSE]>>,
   docVerb |-> "DELETE", docPath |-> "/fapi/v1/order", docReq |-> <<"symbol", "timestamp">>],
  [name |-> "cancelMultipleOrders", line |-> 645, params |-> <<"symbol", "timestamp">>, opt |-> TRUE,
   each |-> <<>>, validate |-> <<"symbol", "timestamp">>,
   via |-> "signRequest", verb |-> "DELETE", path |-> "/fapi/v1/batchOrders", shape |-> "assign",
   assign |-> <<[k |-> "symbol", id |-> "symbol", up |-> TRUE], [k |-> "timestamp", id |-> "timestamp", up |-> FALSE]>>,
   docVerb |-> "DELETE", docPath |-> "/fapi/v1/batchOrders", docReq |-> <<"symbol", "timestamp">>],
  [name |-> "cancelAllOpenOrders", line |-> 670, params |-> <<"symbol", "timestamp">>, opt |-> TRUE,
   each |-> <<>>, validate |-> <<"symbol", "timestamp">>,
   via |-> "signRequest", verb |-> "DELETE", path |-> "/fapi/v1/allOpenOrders", shape |-> "assign",
   assign |-> <<[k |-> "symbol", id |-> "symbol", up |-> TRUE], [k |-> "timestamp", id |-> "timestamp", up |-> FALSE]>>,
   docVerb |-> "DELETE", docPath |-> "/fapi/v1/allOpenOrders", docReq |-> <<"symbol", "timestamp">>],
  [name |-> "countDownCancelAll", line |-> 696, params |-> <<"symbol", "timestamp", "countdownTime">>, opt |-> TRUE,
   each |-> <<>>, validate |-> <<"symbol", "timestamp", "countdownTime">>,
   via |-> "signRequest", verb |-> "POST", path |-> "/fapi/v1/countdownCancelAll", shape |-> "assign",
   assign |-> <<[k |-> "symbol", id |-> "symbol", up |-> TRUE], [k |-> "countdownTime", id |-> "countdownTime", up |-> FALSE], [k |-> "timestamp", id |-> "timestamp", up |-> FALSE]>>,
   docVerb |-> "POST", docPath |-> "/fapi/v1/countdownCancelAll", docReq |-> <<"symbol", "timestamp", "countdownTime">>],
  [name |-> "queryOrder", line |-> 724, params |-> <<"symbol", "timestamp">>, opt |-> TRUE,
   each |-> <<>>, validate |-> <<"symbol", "timestamp">>,
   via |-> "publicRequest", verb |-> "GET", path |-> "/fapi/v1/order", shape |-> "assign",
   assign |-> <<[k |-> "symbol", id |-> "symbol", up |-> TRUE], [k |-> "timestamp", id |-> "timestamp", up |-> FALSE]>>,
   docVerb |-> "GET", docPath |-> "/fapi/v1/order", docReq |-> <<"symbol", "timestamp">>],
  [name |-> "queryAllOrders", line |-> 753, params |-> <<"symbol", "timestamp">>, opt |-> TRUE,
   each |-> <<>>, validate |-> <<"symbol", "timestamp">>,
   via |-> "publicRequest", verb |-> "GET", path |-> "/fapi/v1/allOrders", shape |-> "assign",
   assign |-> <<[k |-> "symbol", id |-> "symbol", up |-> TRUE], [k |-> "timestamp", id |-> "timestamp", up |-> FALSE]>>,
   docVerb |-> "GET", docPath |-> "/fapi/v1/allOrders", docReq |-> <<"symbol", "timestamp">>],
  [name |-> "queryCurrentAllOpenOrders", line |-> 778, params |-> <<"timestamp">>, opt |-> TRUE,
   each |-> <<>>, validate |-> <<"timestamp">>,
   via |-> "publicRequest", verb |-> "GET", path |-> "/fapi/v1/openOrders", shape |-> "assign",
   assign |-> <<[k |-> "timestamp", id |-> "timestamp", up |-> FALSE]>>,
   docVerb |-> "GET", docPath |-> "/fapi/v1/openOrders", docReq |-> <<"timestamp">>],
  [name |-> "queryCurrentOpenOrder", line |-> 804, params |-> <<"symbol", "timestamp">>, opt |-> TRUE,
   each |-> <<>>, validate |-> <<"symbol", "timestamp">>,
   via |-> "publicRequest", verb |-> "GET", path |-> "/fapi/v1/openOrder", shape |-> "assign",
   assign |-> <<[k |-> "symbol", id |-> "symbol", up |-> TRUE], [k |-> "timestamp", id |-> "timestamp", up |-> FALSE]>>,
   docVerb |-> "GET", docPath |-> "/fapi/v1/openOrder", docReq |-> <<"symbol", "timestamp">>],
  [name |-> "forceOrders", line |-> 833, params |-> <<"timestamp">>, opt |-> TRUE,
   each |-> <<>>, validate |-> <<"symbol", "timestamp">>,
   via |-> "publicRequest", verb |-> "GET", path |-> "/fapi/v1/forceOrders", shape |-> "assign",
   assign |-> <<[k |-> "timestamp", id |-> "timestamp", up |-> FALSE]>>,
   docVerb |-> "GET", docPath |-> "/fapi/v1/forceOrders", docReq |-> <<"timestamp">>],
  [name |-> "queryUserTrades", line |-> 862, params |-> <<"symbol", "timestamp">>, opt |-> TRUE,
   each |-> <<>>, validate |-> <<"symbol", "timestamp">>,
   via |-> "publicRequest", verb |-> "GET", path |-> "/fapi/v1/userTrades", shape |-> "assign",
   assign |-> <<[k |-> "symbol", id |-> "symbol", up |-> TRUE], [k |-> "timestamp", id |-> "timestamp", up |-> FALSE]>>,
   docVerb |-> "GET", docPath |-> "/fapi/v1/userTrades", docReq |-> <<"symbol", "timestamp">>],
  [name |-> "changeMarginType", line |-> 888, params |-> <<"symbol", "marginType", "timestamp">>, opt |-> TRUE,
   each |-> <<>>, validate |-> <<"symbol", "marginType", "timestamp">>,
   via |-> "signRequest", verb |-> "POST", path |-> "/fapi/v1/marginType", shape |-> "assign",
   assign |-> <<[k |-> "symbol", id |-> "symbol", up |-> TRUE], [k |-> "marginType", id |-> "marginType", up |-> TRUE], [k |-> "timestamp", id |-> "timestamp", up |-> FALSE]>>,
   docVerb |-> "POST", docPath |-> "/fapi/v1/marginType", docReq |-> <<"symbol", "marginType", "timestamp">>],
  [name |-> "changePositionMode", line |-> 914, params |-> <<"dualSidePosition", "timestamp">>, opt |-> TRUE,
   each |-> <<>>, validate |-> <<"dualSidePosition", "timestamp">>,
   via |-> "signRequest", verb |-> "POST", path |-> "/fapi/v1/positionSide/dual", shape |-> "assign",
   assign |-> <<[k |-> "dualSidePosition", id |-> "dualSidePosition", up |-> FALSE], [k |-> "timestamp", id |-> "timestamp", up |-> FALSE]>>,
   docVerb |-> "POST", docPath |-> "/fapi/v1/positionSide/dual", docReq |-> <<"dualSidePosition", "timestamp">>],
  [name |-> "changeLeverage", line |-> 940, params |-> <<"symbol", "leverage", "timestamp">>, opt |-> TRUE,
   each |-> <<>>, validate |-> <<"symbol", "leverage", "timestamp">>,
   via |-> "signRequest", verb |-> "POST", path |-> "/fapi/v1/leverage", shape |-> "assign",
   assign |-> <<[k |-> "symbol", id |-> "symbol", up |-> TRUE], [k |-> "leverage", id |-> "leverage", up |-> FALSE], [k |-> "timestamp", id |-> "timestamp", up |-> FALSE]>>,
   docVerb |-> "POST", docPath |-> "/fapi/v1/leverage", docReq |-> <<"symbol", "leverage", "timestamp">>],
  [name |-> "changeMultiAssetType", line |-> 966, params |-> <<"multiAssetsMargin", "timestamp">>, opt |-> TRUE,
   each |-> <<>>, validate |-> <<"multiAssetsMargin", "timestamp">>,
   via |-> "signRequest", verb |-> "POST", path |-> "/fapi/v1/multiAssetsMargin", shape |-> "assign",
   assign |-> <<[k |-> "multiAssetsMargin", id |-> "multiAssetsMargin", up |-> FALSE], [k |-> "timestamp", id |-> "timestamp", up |-> FALSE]>>,
   docVerb |-> "POST", docPath |-> "/fapi/v1/multiAssetsMargin", docReq |-> <<"multiAssetsMargin", "timestamp">>],
  [name |-> "modifyIsolatedMargin", line |-> 994, params |-> <<"symbol", "amount", "type", "timestamp">>, opt |-> TRUE,
   each |-> <<>>, validate |-> <<"symbol", "amount", "type", "timestamp">>,
   via |-> "signRequest", verb |-> "POST", path |-> "/fapi/v1/positionMargin", shape |-> "assign",
   assign |-> <<[k |-> "symbol", id |-> "symbol", up |-> TRUE], [k |-> "amount", id |-> "amount", up |-> FALSE], [k |-> "type", id |-> "type", up |-> FALSE], [k |-> "timestamp", id |-> "timestamp", up |-> FALSE]>>,
   docVerb |-> "POST", docPath |-> "/fapi/v1/positionMargin", docReq |-> <<"symbol", "amount", "type", "timestamp">>],
  [name |-> "positionInformationV2", line |-> 1021, params |-> <<"timestamp">>, opt |-> TRUE,
   each |-> <<>>, validate |-> <<"timestamp">>,
   via |-> "publicRequest", verb |-> "GET", path |-> "/fapi/v2/positionRisk", shape |-> "assign",
   assign |-> <<[k |-> "timestamp", id |-> "timestamp", up |-> FALSE]>>,
   docVerb |-> "GET", docPath |-> "/fapi/v2/positionRisk", docReq |-> <<"timestamp">>],
  [name |-> "positionInformationV3", line |-> 1045, params |-> <<"timestamp">>, opt |-> TRUE,
   each |-> <<>>, validate |-> <<"timestamp">>,
   via |-> "publicRequest", verb |-> "GET", path |-> "/fapi/v3/positionRisk", shape |-> "assign",
   assign |-> <<[k |-> "timestamp", id |-> "timestamp", up |-> FALSE]>>,
   docVerb |-> "GET", docPath |-> "/fapi/v3/positionRisk", docReq |-> <<"timestamp">>],
  [name |-> "adlQuantile", line |-> 1069, params |-> <<"timestamp">>, opt |-> TRUE,
   each |-> <<>>, validate |-> <<"timestamp">>,
   via |-> "publicRequest", verb |-> "GET", path |-> "/fapi/v3/positionRisk", shape |-> "assign",
   assign |-> <<[k |-> "timestamp", id |-> "timestamp", up |-> FALSE]>>,
   docVerb |-> "GET", docPath |-> "/fapi/v1/adlQuantile", docReq |-> <<"timestamp">>],
  [name |-> "positionMarginHistory", line |-> 1097, params |-> <<"symbol", "timestamp">>, opt |-> TRUE,
   each |-> <<>>, validate |-> <<"symbol", "timestamp">>,
   via |-> "publicRequest", verb |-> "GET", path |-> "/fapi/v1/positionMargin/history", shape |-> "assign",
   assign |-> <<[k |-> "symbol", id |-> "symbol", up |-> TRUE], [k |-> "timestamp", id |-> "timestamp", up |-> FALSE]>>,
   docVerb |-> "GET", docPath |-> "/fapi/v1/positionMargin/history", docReq |-> <<"symbol", "timestamp">>],
  [name |-> "newOrder", line |-> 1149, params |-> <<"symbol", "side", "type", "timestamp">>, opt |-> TRUE,
   each |-> <<>>, validate |-> <<"symbol", "side", "type", "timestamp">>,
   via |-> "signRequest", verb |-> "POST", path |-> "/fapi/v1/order/test", shape |-> "assign",
   assign |-> <<[k |-> "symbol", id |-> "symbol", up |-> TRUE], [k |-> "side", id |-> "side", up |-> TRUE], [k |-> "type", id |-> "type", up |-> TRUE], [k |-> "timestamp", id |-> "timestamp", up |-> FALSE]>>,
   docVerb |-> "POST", docPath |-> "/fapi/v1/order/test", docReq |-> <<"symbol", "side", "type", "timestamp">>]
  >>

TradeSecond ==
  <<
  [name |-> "newOrder", line |-> 1218, params |-> <<"symbol", "side", "type", "timestamp">>, opt |-> TRUE,
   each |-> <<>>, validate |-> <<"symbol", "side", "type", "timestamp">>,
   via |-> "signRequest", verb |-> "POST", path |-> "/fapi/v1/order", shape |-> "assign",
   assign |-> <<[k |-> "symbol", id |-> "symbol", up |-> TRUE], [k |-> "side", id |-> "side", up |-> TRUE], [k |-> "type", id |-> "type", up |-> TRUE], [k |-> "timestamp", id |-> "timestamp", up |-> FALSE]>>,
   docVerb |-> "POST", docPath |-> "/fapi/v1/order", docReq |-> <<"symbol", "side", "type", "timestamp">>],
  [name |-> "placeMultipleOrder", line |-> 1246, params |-> <<"batchOrders", "timestamp">>, opt |-> TRUE,
   each |-> <<"symbol", "side", "type", "quantity">>, validate |-> <<"timestamp">>,
   via |-> "signRequest", verb |-> "POST", path |-> "/fapi/v1/batchOrders", shape |-> "batch",
   assign |-> <<[k |-> "batchOrders", id |-> "batchOrders", up |-> FALSE], [k |-> "timestamp", id |-> "timestamp", up |-> FALSE]>>,
   docVerb |-> "POST", docPath |-> "/fapi/v1/batchOrders", docReq |-> <<"batchOrders", "timestamp">>],
  [name |-> "modifyOrder", line |-> 1282, params |-> <<"symbol", "side", "number", "price", "timestamp">>, opt |-> TRUE,
   each |-> <<>>, validate |-> <<"symbol", "side", "number", "price", "timestamp">>,
   via |-> "signRequest", verb |-> "PUT", path |-> "/fapi/v1/order", shape |-> "assign",
   assign |-> <<[k |-> "symbol", id |-> "symbol", up |-> TRUE], [k |-> "side", id |-> "side", up |-> TRUE], [k |-> "number", id |-> "number", up |-> FALSE], [k |-> "price", id |-> "price", up |-> FALSE], [k |-> "timestamp", id |-> "timestamp", up |-> FALSE]>>,
   docVerb |-> "PUT", docPath |-> "/fapi/v1/order", docReq |-> <<"symbol", "side", "quantity", "price", "timestamp">>],
  [name |-> "modifyMultipleOrder", line |-> 1310, params |-> <<"batchOrders", "timestamp">>, opt |-> TRUE,
   each |-> <<"symbol", "side", "quantity", "price", "timestamp">>, validate |-> <<"timestamp">>,
   via |-> "signRequest", verb |-> "PUT", path |-> "/fapi/v1/batchOrders", shape |-> "batch",
   assign |-> <<[k |-> "batchOrders", id |-> "batchOrders", up |-> FALSE], [k |-> "timestamp", id |-> "timestamp", up |-> FALSE]>>,
   docVerb |-> "PUT", docPath |-> "/fapi/v1/batchOrders", docReq |-> <<"batchOrders", "timestamp">>],
  [name |-> "orderModifyHistory", line |-> 1350, params |-> <<"symbol", "timestamp">>, opt |-> TRUE,
   each |-> <<>>, validate |-> <<"symbol", "timestamp">>,
   via |-> "signRequest", verb |-> "GET", path |-> "/fapi/v1/orderAmendment", shape |-> "assign",
   assign |-> <<[k |-> "symbol", id |-> "symbol", up |-> TRUE], [k |-> "timestamp", id |-> "timestamp", up |-> FALSE]>>,
   docVerb |-> "GET", docPath |-> "/fapi/v1/orderAmendment", docReq |-> <<"symbol", "timestamp">>],
  [name |-> "cancelOrder", line |-> 1376, params |-> <<"symbol", "timestamp">>, opt |-> TRUE,
   each |-> <<>>, validate |-> <<"symbol", "timestamp">>,
   via |-> "signRequest", verb |-> "DELETE", path |-> "/fapi/v1/order", shape |-> "assign",
   assign |-> <<[k |-> "symbol", id |-> "symbol", up |-> TRUE], [k |-> "timestamp", id |-> "timestamp", up |-> FALSE]>>,
   docVerb |-> "DELETE", docPath |-> "/fapi/v1/order", docReq |-> <<"symbol", "timestamp">>],
  [name |-> "cancelMultipleOrders", line |-> 1404, params |-> <<"symbol", "timestamp">>, opt |-> TRUE,
   each |-> <<>>, validate |-> <<"symbol", "timestamp">>,
   via |-> "signRequest", verb |-> "DELETE", path |-> "/fapi/v1/batchOrders", shape |-> "assign",
   assign |-> <<[k |-> "symbol", id |-> "symbol", up |-> TRUE], [k |-> "timestamp", id |-> "timestamp", up |-> FALSE]>>,
   docVerb |-> "DELETE", docPath |-> "/fapi/v1/batchOrders", docReq |-> <<"symbol", "timestamp">>],
  [name |-> "cancelAllOpenOrders", line |-> 1429, params |-> <<"symbol", "timestamp">>, opt |-> TRUE,
   each |-> <<>>, validate |-> <<"symbol", "timestamp">>,
   via |-> "signRequest", verb |-> "DELETE", path |-> "/fapi/v1/allOpenOrders", shape |-> "assign",
   assign |-> <<[k |-> "symbol", id |-> "symbol", up |-> TRUE], [k |-> "timestamp", id |-> "timestamp", up |-> FALSE]>>,
   docVerb |-> "DELETE", docPath |-> "/fapi/v1/allOpenOrders", docReq |-> <<"symbol", "timestamp">>],
  [name |-> "countDownCancelAll", line |-> 1455, params |-> <<"symbol", "timestamp", "countdownTime">>, opt |-> TRUE,
   each |-> <<>>, validate |-> <<"symbol", "timestamp", "countdownTime">>,
   via |-> "signRequest", verb |-> "POST", path |-> "/fapi/v1/countdownCancelAll", shape |-> "assign",
   assign |-> <<[k |-> "symbol", id |-> "symbol", up |-> TRUE], [k |-> "countdownTime", id |-> "countdownTime", up |-> FALSE], [k |-> "timestamp", id |-> "timestamp", up |-> FALSE]>>,
   docVerb |-> "POST", docPath |-> "/fapi/v1/countdownCancelAll", docReq |-> <<"symbol", "timestamp", "countdownTime">>],
  [name |-> "queryOrder", line |-> 1483, params |-> <<"symbol", "timestamp">>, opt |-> TRUE,
   each |-> <<>>, validate |-> <<"symbol", "timestamp">>,
   via |-> "signRequest", verb |-> "GET", path |-> "/fapi/v1/order", shape |-> "assign",
   assign |-> <<[k |-> "symbol", id |-> "symbol", up |-> TRUE], [k |-> "timestamp", id |-> "timestamp", up |-> FALSE]>>,
   docVerb |-> "GET", docPath |-> "/fapi/v1/order", docReq |-> <<"symbol", "timestamp">>],
  [name |-> "queryAllOrders", line |-> 1512, params |-> <<"symbol", "timestamp">>, opt |-> TRUE,
   each |-> <<>>, validate |-> <<"symbol", "timestamp">>,
   via |-> "signRequest", verb |-> "GET", path |-> "/fapi/v1/allOrders", shape |-> "assign",
   assign |-> <<[k |-> "symbol", id |-> "symbol", up |-> TRUE], [k |-> "timestamp", id |-> "timestamp", up |-> FALSE]>>,
   docVerb |-> "GET", docPath |-> "/fapi/v1/allOrders", docReq |-> <<"symbol", "timestamp">>],
  [name |-> "queryCurrentAllOpenOrders", line |-> 1537, params |-> <<"timestamp">>, opt |-> TRUE,
   each |-> <<>>, validate |-> <<"timestamp">>,
   via |-> "signRequest", verb |-> "GET", path |-> "/fapi/v1/openOrders", shape |-> "assign",
   assign |-> <<[k |-> "timestamp", id |-> "timestamp", up |-> FALSE]>>,
   docVerb |-> "GET", docPath |-> "/fapi/v1/openOrders", docReq |-> <<"timestamp">>],
  [name |-> "queryCurrentOpenOrder", line |-> 1563, params |-> <<"symbol", "timestamp">>, opt |-> TRUE,
   each |-> <<>>, validate |-> <<"symbol", "timestamp">>,
   via |-> "signRequest", verb |-> "GET", path |-> "/fapi/v1/openOrder", shape |-> "assign",
   assign |-> <<[k |-> "symbol", id |-> "symbol", up |-> TRUE], [k |-> "timestamp", id |-> "timestamp", up |-> FALSE]>>,
   docVerb |-> "GET", docPath |-> "/fapi/v1/openOrder", docReq |-> <<"symbol", "timestamp">>],
  [name |-> "forceOrders", line |-> 1592, params |-> <<"timestamp">>, opt |-> TRUE,
   each |-> <<>>, validate |-> <<"symbol", "timestamp">>,
   via |-> "signRequest", verb |-> "GET", path |-> "/fapi/v1/forceOrders", shape |-> "assign",
   assign |-> <<[k |-> "timestamp", id |-> "timestamp", up |-> FALSE]>>,
   docVerb |-> "GET", docPath |-> "/fapi/v1/forceOrders", docReq |-> <<"timestamp">>],
  [name |-> "queryUserTrades", line |-> 1621, params |-> <<"symbol", "timestamp">>, opt |-> TRUE,
   each |-> <<>>, validate |-> <<"symbol", "timestamp">>,
   via |-> "signRequest", verb |-> "GET", path |-> "/fapi/v1/userTrades", shape |-> "assign",
   assign |-> <<[k |-> "symbol", id |-> "symbol", up |-> TRUE], [k |-> "timestamp", id |-> "timestamp", up |-> FALSE]>>,
   docVerb |-> "GET", docPath |-> "/fapi/v1/userTrades", docReq |-> <<"symbol", "timestamp">>],
  [name |-> "changeMarginType", line |-> 1647, params |-> <<"symbol", "marginType", "timestamp">>, opt |-> TRUE,
   each |-> <<>>, validate |-> <<"symbol", "marginType", "timestamp">>,
   via |-> "signRequest", verb |-> "POST", path |-> "/fapi/v1/marginType", shape |-> "assign",
   assign |-> <<[k |-> "symbol", id |-> "symbol", up |-> TRUE], [k |-> "marginType", id |-> "marginType", up |-> TRUE], [k |-> "timestamp", id |-> "timestamp", up |-> FALSE]>>,
   docVerb |-> "POST", docPath |-> "/fapi/v1/marginType", docReq |-> <<"symbol", "marginType", "timestamp">>],
  [name |-> "changePositionMode", line |-> 1673, params |-> <<"dualSidePosition", "timestamp">>, opt |-> TRUE,
   each |-> <<>>, validate |-> <<"dualSidePosition", "timestamp">>,
   via |-> "signRequest", verb |-> "POST", path |-> "/fapi/v1/positionSide/dual", shape |-> "assign",
   assign |-> <<[k |-> "dualSidePosition", id |-> "dualSidePosition", up |-> FALSE], [k |-> "timestamp", id |-> "timestamp", up |-> FALSE]>>,
   docVerb |-> "POST", docPath |-> "/fapi/v1/positionSide/dual", docReq |-> <<"dualSidePosition", "timestamp">>]
  >>

Market ==
  <<
  [name |-> "ping", line |-> 20, params |-> <<>>, opt |-> FALSE,
   each |-> <<>>, validate |-> <<>>,
   via |-> "publicRequest", verb |-> "GET", path |-> "/fapi/v1/ping", shape |-> "bare",
   assign |-> <<>>,
   docVerb |-> "GET", docPath |-> "/fapi/v1/ping", docReq |-> <<>>],
  [name |-> "time", line |-> 33, params |-> <<>>, opt |-> FALSE,
   each |-> <<>>, validate |-> <<>>,
   via |-> "publicRequest", verb |-> "GET", path |-> "/fapi/v1/time", shape |-> "bare",
   assign |-> <<>>,
   docVerb |-> "GET", docPath |-> "/fapi/v1/time", docReq |-> <<>>],
  [name |-> "exchangeInfo", line |-> 50, params |-> <<>>, opt |-> TRUE,
   each |-> <<>>, validate |-> <<>>,
   via |-> "publicRequest", verb |-> "GET", path |-> "/fapi/v1/exchangeInfo", shape |-> "exchangeInfo",
   assign |-> <<>>,
   docVerb |-> "GET", docPath |-> "/fapi/v1/exchangeInfo", docReq |-> <<>>],
  [name |-> "depth", line |-> 72, params |-> <<"symbol">>, opt |-> TRUE,
   each |-> <<>>, validate |-> <<"symbol">>,
   via |-> "publicRequest", verb |-> "GET", path |-> "/fapi/v1/depth", shape |-> "assign",
   assign |-> <<[k |-> "symbol", id |-> "symbol", up |-> TRUE]>>,
   docVerb |-> "GET", docPath |-> "/fapi/v1/depth", docReq |-> <<"symbol">>],
  [name |-> "trades", line |-> 96, params |-> <<"symbol">>, opt |-> TRUE,
   each |-> <<>>, validate |-> <<"symbol">>,
   via |-> "publicRequest", verb |-> "GET", path |-> "/fapi/v1/trades", shape |-> "assign",
   assign |-> <<[k |-> "symbol", id |-> "symbol", up |-> TRUE]>>,
   docVerb |-> "GET", docPath |-> "/fapi/v1/trades", docReq |-> <<"symbol">>],
  [name |-> "historicalTrades", line |-> 121, params |-> <<"symbol">>, opt |-> TRUE,
   each |-> <<>>, validate |-> <<"symbol">>,
   via |-> "publicRequest", verb |-> "GET", path |-> "/fapi/v1/historicalTrades", shape |-> "assign",
   assign |-> <<[k |-> "symbol", id |-> "symbol", up |-> TRUE]>>,
   docVerb |-> "GET", docPath |-> "/fapi/v1/historicalTrades", docReq |-> <<"symbol">>],
  [name |-> "aggTrades", line |-> 147, params |-> <<"symbol">>, opt |-> TRUE,
   each |-> <<>>, validate |-> <<"symbol">>,
   via |-> "publicRequest", verb |-> "GET", path |-> "/fapi/v1/aggTrades", shape |-> "assign",
   assign |-> <<[k |-> "symbol", id |-> "symbol", up |-> TRUE]>>,
   docVerb |-> "GET", docPath |-> "/fapi/v1/aggTrades", docReq |-> <<"symbol">>],
  [name |-> "klines", line |-> 173, params |-> <<"symbol", "interval">>, opt |-> TRUE,
   each |-> <<>>, validate |-> <<"symbol", "interval">>,
   via |-> "publicRequest", verb |-> "GET", path |-> "/fapi/v1/klines", shape |-> "assign",
   assign |-> <<[k |-> "symbol", id |-> "symbol", up |-> TRUE], [k |-> "interval", id |-> "interval", up |-> FALSE]>>,
   docVerb |-> "GET", docPath |-> "/fapi/v1/klines", docReq |-> <<"symbol", "interval">>],
  [name |-> "continousklines", line |-> 200, params |-> <<"pair", "contractType", "interval">>, opt |-> TRUE,
   each |-> <<>>, validate |-> <<"pair", "contractType", "interval">>,
   via |-> "publicRequest", verb |-> "GET", path |-> "/fapi/v1/continuousKlines", shape |-> "assign",
   assign |-> <<[k |-> "pair", id |-> "pair", up |-> TRUE], [k |-> "contractType", id |-> "contractType", up |-> FALSE], [k |-> "interval", id |-> "interval", up |-> FALSE]>>,
   docVerb |-> "GET", docPath |-> "/fapi/v1/continuousKlines", docReq |-> <<"pair", "contractType", "interval">>],
  [name |-> "indexklines", line |-> 227, params |-> <<"pair", "interval">>, opt |-> TRUE,
   each |-> <<>>, validate |-> <<"pair", "interval">>,
   via |-> "publicRequest", verb |-> "GET", path |-> "/fapi/v1/indexPriceKlines", shape |-> "assign",
   assign |-> <<[k |-> "pair", id |-> "pair", up |-> TRUE], [k |-> "interval", id |-> "interval", up |-> FALSE]>>,
   docVerb |-> "GET", docPath |-> "/fapi/v1/indexPriceKlines", docReq |-> <<"pair", "interval">>],
  [name |-> "markklines", line |-> 253, params |-> <<"symbol", "interval">>, opt |-> TRUE,
   each |-> <<>>, validate |-> <<"symbol", "interval">>,
   via |-> "publicRequest", verb |-> "GET", path |-> "/fapi/v1/markPriceKlines", shape |-> "assign",
   assign |-> <<[k |-> "symbol", id |-> "symbol", up |-> TRUE], [k |-> "interval", id |-> "interval", up |-> FALSE]>>,
   docVerb |-> "GET", docPath |-> "/fapi/v1/markPriceKlines", docReq |-> <<"symbol", "interval">>],
  [name |-> "markklines", line |-> 279, params |-> <<"symbol", "interval">>, opt |-> TRUE,
   each |-> <<>>, validate |-> <<"symbol", "interval">>,
   via |-> "publicRequest", verb |-> "GET", path |-> "/fapi/v1/markPriceKlines", shape |-> "assign",
   assign |-> <<[k |-> "symbol", id |-> "symbol", up |-> TRUE], [k |-> "interval", id |-> "interval", up |-> FALSE]>>,
   docVerb |-> "GET", docPath |-> "/fapi/v1/markPriceKlines", docReq |-> <<"symbol", "interval">>],
  [name |-> "premiumindexklines", line |-> 305, params |-> <<"symbol", "interval">>, opt |-> TRUE,
   each |-> <<>>, validate |-> <<"symbol", "interval">>,
   via |-> "publicRequest", verb |-> "GET", path |-> "/fapi/v1/premiumIndexKlines", shape |-> "assign",
   assign |-> <<[k |-> "symbol", id |-> "symbol", up |-> TRUE], [k |-> "interval", id |-> "interval", up |-> FALSE]>>,
   docVerb |-> "GET", docPath |-> "/fapi/v1/premiumIndexKlines", docReq |-> <<"symbol", "interval">>],
  [name |-> "premiumindex", line |-> 326, params |-> <<"symbol">>, opt |-> FALSE,
   each |-> <<>>, validate |-> <<>>,
   via |-> "publicRequest", verb |-> "GET", path |-> "/fapi/v1/premiumIndex", shape |-> "literal",
   assign |-> <<[k |-> "symbol", id |-> "symbol", up |-> TRUE]>>,
   docVerb |-> "GET", docPath |-> "/fapi/v1/premiumIndex", docReq |-> <<"symbol">>],
  [name |-> "fundingRateHistory", line |-> 345, params |-> <<"symbol">>, opt |-> TRUE,
   each |-> <<>>, validate |-> <<>>,
   via |-> "publicRequest", verb |-> "GET", path |-> "/fapi/v1/fundingRate", shape |-> "assign",
   assign |-> <<[k |-> "symbol", id |-> "symbol", up |-> TRUE]>>,
   docVerb |-> "GET", docPath |-> "/fapi/v1/fundingRate", docReq |-> <<"symbol">>],
  [name |-> "fundingInfo", line |-> 363, params |-> <<>>, opt |-> FALSE,
   each |-> <<>>, validate |-> <<>>,
   via |-> "publicRequest", verb |-> "GET", path |-> "/fapi/v1/fundingInfo", shape |-> "literal",
   assign |-> <<>>,
   docVerb |-> "GET", docPath |-> "/fapi/v1/fundingInfo", docReq |-> <<>>],
  [name |-> "priceChange24H", line |-> 376, params |-> <<"symbol">>, opt |-> FALSE,
   each |-> <<>>, validate |-> <<>>,
   via |-> "publicRequest", verb |-> "GET", path |-> "/fapi/v1/ticker/24hr", shape |-> "literal",
   assign |-> <<[k |-> "symbol", id |-> "symbol", up |-> TRUE]>>,
   docVerb |-> "GET", docPath |-> "/fapi/v1/ticker/24hr", docReq |-> <<"symbol">>],
  [name |-> "symbolPriceTicker", line |-> 391, params |-> <<"symbol">>, opt |-> FALSE,
   each |-> <<>>, validate |-> <<>>,
   via |-> "publicRequest", verb |-> "GET", path |-> "/fapi/v1/ticker/price", shape |-> "literal",
   assign |-> <<[k |-> "symbol", id |-> "symbol", up |-> TRUE]>>,
   docVerb |-> "GET", docPath |-> "/fapi/v1/ticker/price", docReq |-> <<"symbol">>],
  [name |-> "symbolPriceTickerV2", line |-> 406, params |-> <<"symbol">>, opt |-> FALSE,
   each |-> <<>>, validate |-> <<>>,
   via |-> "publicRequest", verb |-> "GET", path |-> "/fapi/v2/ticker/price", shape |-> "literal",
   assign |-> <<[k |-> "symbol", id |-> "symbol", up |-> TRUE]>>,
   docVerb |-> "GET", docPath |-> "/fapi/v2/ticker/price", docReq |-> <<"symbol">>],
  [name |-> "bookTicker", line |-> 421, params |-> <<"symbol">>, opt |-> FALSE,
   each |-> <<>>, validate |-> <<>>,
   via |-> "publicRequest", verb |-> "GET", path |-> "/fapi/v1/ticker/bookTicker", shape |-> "literal",
   assign |-> <<[k |-> "symbol", id |-> "symbol", up |-> TRUE]>>,
   docVerb |-> "GET", docPath |-> "/fapi/v1/ticker/bookTicker", docReq |-> <<"symbol">>],
  [name |-> "openInterest", line |-> 436, params |-> <<"symbol">>, opt |-> FALSE,
   each |-> <<>>, validate |-> <<"symbol">>,
   via |-> "publicRequest", verb |-> "GET", path |-> "/fapi/v1/openInterest", shape |-> "literal",
   assign |-> <<[k |-> "symbol", id |-> "symbol", up |-> TRUE]>>,
   docVerb |-> "GET", docPath |-> "/fapi/v1/openInterest", docReq |-> <<"symbol">>],
  [name |-> "deliveryPrice", line |-> 452, params |-> <<"pair">>, opt |-> FALSE,
   each |-> <<>>, validate |-> <<"pair">>,
   via |-> "publicRequest", verb |-> "GET", path |-> "/futures/data/delivery-price", shape |-> "literal",
   assign |-> <<[k |-> "pair", id |-> "pair", up |-> TRUE]>>,
   docVerb |-> "GET", docPath |-> "/futures/data/delivery-price", docReq |-> <<"pair">>],
  [name |-> "openInterestHist", line |-> 474, params |-> <<"symbol", "period">>, opt |-> TRUE,
   each |-> <<>>, validate |-> <<"symbol", "period">>,
   via |-> "publicRequest", verb |-> "GET", path |-> "/futures/data/openInterestHist", shape |-> "assign",
   assign |-> <<[k |-> "symbol", id |-> "symbol", up |-> TRUE], [k |-> "period", id |-> "period", up |-> FALSE]>>,
   docVerb |-> "GET", docPath |-> "/futures/data/openInterestHist", docReq |-> <<"symbol", "period">>],
  [name |-> "topLongShortAccountRatio", line |-> 501, params |-> <<"symbol", "period">>, opt |-> TRUE,
   each |-> <<>>, validate |-> <<"symbol", "period">>,
   via |-> "publicRequest", verb |-> "GET", path |-> "/futures/data/topLongShortAccountRatio", shape |-> "assign",
   assign |-> <<[k |-> "symbol", id |-> "symbol", up |-> TRUE], [k |-> "period", id |-> "period", up |-> FALSE]>>,
   docVerb |-> "GET", docPath |-> "/futures/data/topLongShortAccountRatio", docReq |-> <<"symbol", "period">>],
  [name |-> "topLongShortPositionRatio", line |-> 528, params |-> <<"symbol", "period">>, opt |-> TRUE,
   each |-> <<>>, validate |-> <<"symbol", "period">>,
   via |-> "publicRequest", verb |-> "GET", path |-> "/futures/data/topLongShortPositionRatio", shape |-> "assign",
   assign |-> <<[k |-> "symbol", id |-> "symbol", up |-> TRUE], [k |-> "period", id |-> "period", up |-> FALSE]>>,
   docVerb |-> "GET", docPath |-> "/futures/data/topLongShortPositionRatio", docReq |-> <<"symbol", "period">>],
  [name |-> "globalLongShortAccountRatio", line |-> 555, params |-> <<"symbol", "period">>, opt |-> TRUE,
   each |-> <<>>, validate |-> <<"symbol", "period">>,
   via |-> "publicRequest", verb |-> "GET", path |-> "/futures/data/globalLongShortAccountRatio", shape |-> "assign",
   assign |-> <<[k |-> "symbol", id |-> "symbol", up |-> TRUE], [k |-> "period", id |-> "period", up |-> FALSE]>>,
   docVerb |-> "GET", docPath |-> "/futures/data/globalLongShortAccountRatio", docReq |-> <<"symbol", "period">>],
  [name |-> "takerlongshortRatio", line |-> 582, params |-> <<"symbol", "period">>, opt |-> TRUE,
   each |-> <<>>, validate |-> <<"symbol", "period">>,
   via |-> "publicRequest", verb |-> "GET", path |-> "/futures/data/takerlongshortRatio", shape |-> "assign",
   assign |-> <<[k |-> "symbol", id |-> "symbol", up |-> TRUE], [k |-> "period", id |-> "period", up |-> FALSE]>>,
   docVerb |-> "GET", docPath |-> "/futures/data/takerlongshortRatio", docReq |-> <<"symbol", "period">>],
  [name |-> "basis", line |-> 610, params |-> <<"pair", "contractType", "period", "limit">>, opt |-> TRUE,
   each |-> <<>>, validate |-> <<"pair", "contractType", "period", "limit">>,
   via |-> "publicRequest", verb |-> "GET", path |-> "/futures/data/basis", shape |-> "assign",
   assign |-> <<[k |-> "pair", id |-> "pair", up |-> TRUE], [k |-> "contractType", id |-> "contractType", up |-> FALSE], [k |-> "period", id |-> "period", up |-> FALSE], [k |-> "limit", id |-> "limit", up |-> FALSE]>>,
   docVerb |-> "GET", docPath |-> "/futures/data/basis", docReq |-> <<"pair", "contractType", "period", "limit">>],
  [name |-> "lvtKlines", line |-> 639, params |-> <<"symbol", "interval">>, opt |-> TRUE,
   each |-> <<>>, validate |-> <<"symbol", "interval">>,
   via |-> "publicRequest", verb |-> "GET", path |-> "/fapi/v1/lvtKlines", shape |-> "assign",
   assign |-> <<[k |-> "symbol", id |-> "symbol", up |-> TRUE], [k |-> "interval", id |-> "interval", up |-> FALSE]>>,
   docVerb |-> "GET", docPath |-> "/fapi/v1/lvtKlines", docReq |-> <<"symbol", "interval">>],
  [name |-> "indexInfo", line |-> 661, params |-> <<"symbol">>, opt |-> FALSE,
   each |-> <<>>, validate |-> <<>>,
   via |-> "publicRequest", verb |-> "GET", path |-> "/fapi/v1/indexInfo", shape |-> "literal",
   assign |-> <<[k |-> "symbol", id |-> "symbol", up |-> TRUE]>>,
   docVerb |-> "GET", docPath |-> "/fapi/v1/indexInfo", docReq |-> <<"symbol">>],
  [name |-> "assetIndex", line |-> 677, params |-> <<"symbol">>, opt |-> FALSE,
   each |-> <<>>, validate |-> <<>>,
   via |-> "publicRequest", verb |-> "GET", path |-> "/fapi/v1/assetIndex", shape |-> "literal",
   assign |-> <<[k |-> "symbol", id |-> "symbol", up |-> TRUE]>>,
   docVerb |-> "GET", docPath |-> "/fapi/v1/assetIndex", docReq |-> <<"symbol">>],
  [name |-> "constituents", line |-> 693, params |-> <<"symbol">>, opt |-> FALSE,
   each |-> <<>>, validate |-> <<"symbol">>,
   via |-> "publicRequest", verb |-> "GET", path |-> "/fapi/v1/constituents", shape |-> "literal",
   assign |-> <<[k |-> "symbol", id |-> "symbol", up |-> TRUE]>>,
   docVerb |-> "GET", docPath |-> "/fapi/v1/constituents", docReq |-> <<"symbol">>]
  >>


(***************************************************************************)
(* A class resolves a method name to the LAST definition of that name in   *)
(* its body (Trade defines newOrder twice, Market defines markklines       *)
(* twice).                                                                 *)
(***************************************************************************)
MethodNames(cls) == {cls[i].name : i \in 1..Len(cls)}

Method(cls, name) ==
  cls[CHOOSE i \in 1..Len(cls) :
        /\ cls[i].name = name
        /\ \A j \in (i + 1)..Len(cls) : cls[j].name # name]

ClassNames == {"Account", "Trade", "TradeSecond", "Market"}

ClassNamed(c) ==
  CASE c = "Account" -> Account
    [] c = "Trade" -> Trade
    [] c = "TradeSecond" -> TradeSecond
    [] OTHER -> Market

\* The method names each class body defines.
OwnNames == [c \in ClassNames |-> MethodNames(ClassNamed(c))]

\* What each class resolves each of its method names to.
Resolved ==
  [c \in ClassNames |-> [n \in OwnNames[c] |-> Method(ClassNamed(c), n)]]

\* Mutant: the Account class also defines a method named time.
DefinesTimeInAccount(c, name) ==
  name \in OwnNames[c] \/ (c = "Account" /\ name = "time")

\* Does class c itself define a method called name?
Defines(c, name) == name \in OwnNames[c]

(***************************************************************************)
(* The body of an endpoint method.                                         *)
(***************************************************************************)
\* Is id one of the method's declared positional parameters?  Reading any
\* other identifier throws ReferenceError.
Declared(m, id) == \E i \in 1..Len(m.params) : m.params[i] = id

Arg(m, args, id) == args[CHOOSE i \in 1..Len(m.params) : m.params[i] = id]

\* The shorthand object literal { id1, id2, ... }.
Shorthand(m, args, ids) ==
  [i \in 1..Len(ids) |-> [k |-> ids[i], v |-> Arg(m, args, ids[i])]]

\* The method throws before reaching the dispatcher.
Throw(error, missing, options, cl) ==
  [outcome |-> error, missing |-> missing, options |-> options,
   requests |-> <<>>, ret |-> 0, client |-> cl]

\* Mutant: every method goes through this.signRequest.
HandoffSigned(m, params, arg, options, cl) ==
  [outcome |-> "dispatched", missing |-> {}, options |-> options,
   requests |-> <<[via |-> "signRequest", verb |-> m.verb, path |-> m.path,
                   params |-> params, arg |-> arg]>>,
   ret |-> 1, client |-> cl]

\* Mutant: the method clears the client's base URL.
HandoffRebasing(m, params, arg, options, cl) ==
  [outcome |-> "dispatched", missing |-> {}, options |-> options,
   requests |-> <<[via |-> m.via, verb |-> m.verb, path |-> m.path,
                   params |-> params, arg |-> arg]>>,
   ret |-> 1, client |-> [cl EXCEPT !.baseURL = Undefined]]

\* Mutant: the method invokes the dispatcher a second time (a retry) and
\* returns the second promise.
HandoffTwice(m, params, arg, options, cl) ==
  [outcome |-> "dispatched", missing |-> {}, options |-> options,
   requests |-> <<[via |-> m.via, verb |-> m.verb, path |-> m.path,
                   params |-> params, arg |-> arg],
                  [via |-> m.via, verb |-> m.verb, path |-> m.path,
                   params |-> params, arg |-> arg]>>,
   ret |-> 2, client |-> cl]

\* Mutant: every method requests the path pasted into Trade.adlQuantile.
HandoffPositionRisk(m, params, arg, options, cl) ==
  [outcome |-> "dispatched", missing |-> {}, options |-> options,
   requests |-> <<[via |-> m.via, verb |-> m.verb, path |-> "/fapi/v3/positionRisk",
                   params |-> params, arg |-> arg]>>,
   ret |-> 1, client |-> cl]

\* return this.publicRequest(verb, path, params) / this.signRequest(...):
\* one dispatcher invocation, whose promise (ret) is returned as is.
Handoff(m, params, arg, options, cl) ==
  [outcome |-> "dispatched", missing |-> {}, options |-> options,
   requests |-> <<[via |-> m.via, verb |-> m.verb, path |-> m.path,
                   params |-> params, arg |-> arg]>>,
   ret |-> 1, client |-> cl]

\* What evaluating one property of the params literal throws, if anything.
PropError(m, args, e) ==
  IF ~Declared(m, e.id) THEN "ReferenceError"
  ELSE IF e.up /\ Arg(m, args, e.id).t # "string" THEN "TypeError"
  ELSE "none"

\* Mutant: the argument is passed on as given, without .toUpperCase().
PropValueAsGiven(m, args, e) == Arg(m, args, e.id)

\* id, or id.toUpperCase().
PropValue(m, args, e) ==
  IF e.up THEN Str(ToUpperCase(Arg(m, args, e.id).s)) ELSE Arg(m, args, e.id)

\* Mutant: the literal leaves the timestamp out.
LiteralNoTimestamp(m, args) ==
  SelectSeq([i \in 1..Len(m.assign) |->
               [k |-> m.assign[i].k, v |-> PropValue(m, args, m.assign[i])]],
            LAMBDA e : e.k # "timestamp")

\* The object literal { symbol: symbol.toUpperCase(), timestamp, ... }.
Literal(m, args) ==
  [i \in 1..Len(m.assign) |-> [k |-> m.assign[i].k, v |-> PropValue(m, args, m.assign[i])]]

\* Properties are evaluated in order: the first one that throws decides.
LiteralError(m, args) ==
  LET bad == {i \in 1..Len(m.assign) : PropError(m, args, m.assign[i]) # "none"}
  IN IF bad = {} THEN "none"
     ELSE PropError(m, args, m.assign[CHOOSE i \in bad : \A j \in bad : i <= j])

\* Mutant: the parameters are merged into options first and validated after.
RunMethodMergeFirst(m, args, options, cl) ==
  IF m.validate = <<>> \/ \E i \in 1..Len(m.validate) : ~Declared(m, m.validate[i])
  THEN Throw("ReferenceError", {}, options, cl)
  ELSE
    LET given   == Shorthand(m, args, m.validate)
        merged  == ObjectAssign(options, given)
        missing == validateRequiredParameters(given)
    IN IF missing # {} THEN Throw("MissingParameterError", missing, merged, cl)
       ELSE Handoff(m, merged, "options", merged, cl)

\* validateRequiredParameters({...}); return this.<via>(verb, path, params)
\* where params is Object.assign(options, {...}), a fresh literal, or absent.
RunMethod(m, args, options, cl) ==
  IF m.validate # <<>> /\ \E i \in 1..Len(m.validate) : ~Declared(m, m.validate[i])
  THEN Throw("ReferenceError", {}, options, cl)
  ELSE
    LET missing == IF m.validate = <<>> THEN {}
                   ELSE validateRequiredParameters(Shorthand(m, args, m.validate))
    IN IF missing # {} THEN Throw("MissingParameterError", missing, options, cl)
       ELSE IF m.shape = "bare" THEN Handoff(m, <<>>, "none", options, cl)
       ELSE IF m.shape = "assign" /\ ~m.opt THEN Throw("ReferenceError", {}, options, cl)
       ELSE IF LiteralError(m, args) # "none"
            THEN Throw(LiteralError(m, args), {}, options, cl)
       ELSE IF m.shape = "assign"
            THEN LET merged == ObjectAssign(options, Literal(m, args))
                 IN Handoff(m, merged, "options", merged, cl)
       ELSE Handoff(m, Literal(m, args), "literal", options, cl)

\* Mutant: only options.symbol is upper-cased; options.symbols is passed on
\* as given.
exchangeInfoSymbolOnly(m, options, cl) ==
  LET sym == Get(options, "symbol")
      o1  == IF Has(options, "symbol") /\ sym.t = "string"
             THEN Set(options, "symbol", Str(ToUpperCase(sym.s)))
             ELSE options
  IN IF Has(options, "symbol") /\ sym.t # "string"
     THEN Throw("TypeError", {}, options, cl)
     ELSE Handoff(m, o1, "options", o1, cl)

\* Market.exchangeInfo: upper-cases options.symbol and options.symbols in
\* place, one after the other, then dispatches options.
exchangeInfo(m, options, cl) ==
  LET sym   == Get(options, "symbol")
      o1    == IF Has(options, "symbol") /\ sym.t = "string"
               THEN Set(options, "symbol", Str(ToUpperCase(sym.s)))
               ELSE options
      syms  == Get(o1, "symbols")
      o2    == IF Has(o1, "symbols") /\ syms.t = "array"
               THEN Set(o1, "symbols",
                        Arr([i \in 1..Len(syms.a) |-> ToUpperCase(syms.a[i])]))
               ELSE o1
  IN IF Has(options, "symbol") /\ sym.t # "string"
     THEN Throw("TypeError", {}, options, cl)
     ELSE IF Has(o1, "symbols") /\ syms.t # "array"
     THEN Throw("TypeError", {}, o1, cl)
     ELSE Handoff(m, o2, "options", o2, cl)

\* const { symbol, side, ... } = batchOrders[i]; validateRequiredParameters(...)
ElementMissing(m, order) ==
  validateRequiredParameters(
    [i \in 1..Len(m.each) |-> [k |-> m.each[i], v |-> Get(order, m.each[i])]])

\* Mutant: only the first element of batchOrders is validated.
RunBatchFirstOnly(m, args, batch, options, cl) ==
  LET b       == Arg(m, args, "batchOrders")
      elems   == IF b.t = "ref" THEN batch ELSE <<>>
      bad     == {i \in 1..Len(elems) : i = 1 /\ ElementMissing(m, elems[i]) # {}}
      missing == validateRequiredParameters(Shorthand(m, args, m.validate))
  IN IF b.t \in {"undefined", "null"} THEN Throw("TypeError", {}, options, cl)
     ELSE IF bad # {}
     THEN Throw("MissingParameterError", ElementMissing(m, elems[1]), options, cl)
     ELSE IF missing # {} THEN Throw("MissingParameterError", missing, options, cl)
     ELSE LET merged == ObjectAssign(options, Literal(m, args))
          IN Handoff(m, merged, "options", merged, cl)

\* Trade.placeMultipleOrder / Trade.modifyMultipleOrder: validate every
\* element of batchOrders, then timestamp, then merge and dispatch.
RunBatch(m, args, batch, options, cl) ==
  LET b       == Arg(m, args, "batchOrders")
      elems   == IF b.t = "ref" THEN batch ELSE <<>>
      bad     == {i \in 1..Len(elems) : ElementMissing(m, elems[i]) # {}}
      missing == validateRequiredParameters(Shorthand(m, args, m.validate))
  IN IF b.t \in {"undefined", "null"} THEN Throw("TypeError", {}, options, cl)
     ELSE IF bad # {}
     THEN Throw("MissingParameterError",
                ElementMissing(m, elems[CHOOSE i \in bad : \A j \in bad : i <= j]),
                options, cl)
     ELSE IF missing # {} THEN Throw("MissingParameterError", missing, options, cl)
     ELSE LET merged == ObjectAssign(options, Literal(m, args))
          IN Handoff(m, merged, "options", merged, cl)

\* One call of a method: the state it leaves behind.
Run(m, args, batch, options, cl) ==
  IF m.shape = "exchangeInfo" THEN exchangeInfo(m, options, cl)
  ELSE IF m.shape = "batch" THEN RunBatch(m, args, batch, options, cl)
  ELSE RunMethod(m, args, options, cl)

(***************************************************************************)
(* The Futures constructor (src/src/futures.js).                           *)
(***************************************************************************)
\* "https://fapi.binance.com"
DefaultBaseURL ==
  Str(<<104, 116, 116, 112, 115, 58, 47, 47, 102, 97, 112, 105, 46,
        98, 105, 110, 97, 110, 99, 101, 46, 99, 111, 109>>)

\* "api.binance.com", the default the README states.
ReadmeBaseHost == <<97, 112, 105, 46, 98, 105, 110, 97, 110, 99, 101, 46, 99, 111, 109>>

\* "https://"
Https == <<104, 116, 116, 112, 115, 58, 47, 47>>

\* Mutant: the constructor defaults to the host the README states.
FuturesReadmeDefault(apiKey, apiSecret, options) ==
  LET key    == IF apiKey.t = "undefined" THEN Str(<<>>) ELSE apiKey
      secret == IF apiSecret.t = "undefined" THEN Str(<<>>) ELSE apiSecret
      base   == Get(options, "baseURL")
      opts   == Set(options, "baseURL",
                    IF Falsy(base) THEN Str(Https \o ReadmeBaseHost) ELSE base)
  IN [options |-> opts,
      super   |-> ObjectAssign(<<[k |-> "apiKey", v |-> key],
                                 [k |-> "apiSecret", v |-> secret]>>, opts)]

\* Mutant: the constructor writes the default base URL whatever options holds.
FuturesAlwaysDefault(apiKey, apiSecret, options) ==
  LET key    == IF apiKey.t = "undefined" THEN Str(<<>>) ELSE apiKey
      secret == IF apiSecret.t = "undefined" THEN Str(<<>>) ELSE apiSecret
      opts   == Set(options, "baseURL", DefaultBaseURL)
  IN [options |-> opts,
      super   |-> ObjectAssign(<<[k |-> "apiKey", v |-> key],
                                 [k |-> "apiSecret", v |-> secret]>>, opts)]

\* constructor(apiKey = "", apiSecret = "", options = {}): writes the base
\* URL into options, then forwards { apiKey, apiSecret, ...options }.
Futures(apiKey, apiSecret, options) ==
  LET key    == IF apiKey.t = "undefined" THEN Str(<<>>) ELSE apiKey
      secret == IF apiSecret.t = "undefined" THEN Str(<<>>) ELSE apiSecret
      base   == Get(options, "baseURL")
      opts   == Set(options, "baseURL", IF Falsy(base) THEN DefaultBaseURL ELSE base)
  IN [options |-> opts,
      super   |-> ObjectAssign(<<[k |-> "apiKey", v |-> key],
                                 [k |-> "apiSecret", v |-> secret]>>, opts)]

\* APIBase keeps the configuration it is constructed with.
APIBase(config) ==
  [apiKey    |-> Get(config, "apiKey"),
   apiSecret |-> Get(config, "apiSecret"),
   baseURL   |-> Get(config, "baseURL"),
   timeout   |-> Get(config, "timeout")]

(***************************************************************************)
(* Inputs of the model.                                                    *)
(***************************************************************************)
\* "bt1", "BT1", "buy"
LowerSymbol == <<98, 116, 49>>

UpperSymbol == <<66, 84, 49>>

BuySide == <<98, 117, 121>>

\* What a caller may pass for a positional parameter.
ArgValues(id) ==
  IF id \in {"symbol", "pair"}
  THEN {Undefined, Str(<<>>), Str(LowerSymbol), Str(UpperSymbol), Num(7)}
  ELSE IF id = "batchOrders" THEN {Undefined, Ref(1)}
  ELSE IF id \in {"side", "type", "marginType"} THEN {Undefined, Str(BuySide)}
  ELSE {Undefined, Num(1)}

RECURSIVE ArgTuples(_)
ArgTuples(ids) ==
  IF ids = <<>> THEN {<<>>}
  ELSE {<<v>> \o rest : v \in ArgValues(Head(ids)), rest \in ArgTuples(Tail(ids))}

\* The object of the README's "Place a new order" example,
\* { price: "350", quantity: 1, timeInForce: "GTC" }, and a reference to it.
ReadmeOrderOptions ==
  <<[k |-> "price", v |-> Str(<<51, 53, 48>>)], [k |-> "quantity", v |-> Num(1)],
    [k |-> "timeInForce", v |-> Str(<<71, 84, 67>>)]>>

ReadmeOrder == Ref(2)

\* client.newOrder("BNBUSDT", "BUY", "LIMIT", { price, quantity, timeInForce }):
\* the object is the fourth positional argument.
ReadmeCalls(m) ==
  IF m.name = "newOrder"
  THEN {<<Str(UpperSymbol), Str(BuySide), Str(BuySide), ReadmeOrder>>}
  ELSE {}

\* Elements of a batchOrders array: a complete order, and one without quantity.
OrderComplete ==
  <<[k |-> "symbol", v |-> Str(LowerSymbol)], [k |-> "side", v |-> Str(BuySide)],
    [k |-> "type", v |-> Str(BuySide)], [k |-> "quantity", v |-> Num(1)],
    [k |-> "price", v |-> Num(1)], [k |-> "timestamp", v |-> Num(1)]>>

OrderNoQuantity ==
  <<[k |-> "symbol", v |-> Str(LowerSymbol)], [k |-> "side", v |-> Str(BuySide)],
    [k |-> "type", v |-> Str(BuySide)],
    [k |-> "price", v |-> Num(1)], [k |-> "timestamp", v |-> Num(1)]>>

Batches ==
  UNION {[1..n -> {OrderComplete, OrderNoQuantity}] : n \in 0..MaxBatch}

\* The array behind the batchOrders argument, when one is passed.
BatchesFor(m, args) ==
  IF m.shape = "batch" /\ Arg(m, args, "batchOrders").t = "ref" THEN Batches ELSE {<<>>}

\* Options objects a caller builds.
OptionLiterals ==
  { <<[k |-> "symbol", v |-> Str(LowerSymbol)], [k |-> "limit", v |-> Num(5)],
      [k |-> "timestamp", v |-> Num(9)], [k |-> "recvWindow", v |-> Num(70000)],
      [k |-> "symbols", v |-> Arr(<<LowerSymbol, UpperSymbol>>)]>>,
    <<[k |-> "symbol", v |-> Str(LowerSymbol)], [k |-> "symbols", v |-> Num(1)]>> }

\* (apiKey, apiSecret, options) given to new Futures(...).
ConstructorInputs ==
  { <<Undefined, Str(<<115>>),
      <<[k |-> "timeout", v |-> Num(1000)]>>>> }

\* "https://t" (a test network), "k" and "x" (keys), "y" (a secret).
TestnetURL == Str(Https \o <<116>>)

\* Constructor calls beyond the one above: keys and secrets given or omitted;
\* options empty, with a base URL (a string, the empty string, a number),
\* with other settings, and with keys named apiKey and apiSecret.
ConstructorCases ==
  ConstructorInputs \cup
  { <<key, secret, opts>> :
      key \in {Undefined, Str(<<107>>)},
      secret \in {Undefined, Str(<<115>>)},
      opts \in { <<>>,
                 <<[k |-> "baseURL", v |-> TestnetURL], [k |-> "timeout", v |-> Num(1000)]>>,
                 <<[k |-> "timeout", v |-> Num(1000)], [k |-> "baseURL", v |-> Str(<<>>)],
                   [k |-> "proxy", v |-> Num(1)]>>,
                 <<[k |-> "baseURL", v |-> Num(7)], [k |-> "logger", v |-> Num(1)],
                   [k |-> "httpsAgent", v |-> Num(1)]>>,
                 <<[k |-> "apiKey", v |-> Str(<<120>>)], [k |-> "apiSecret", v |-> Str(<<121>>)],
                   [k |-> "timeout", v |-> Num(1000)]>> } }

\* What a caller following the documentation passes for a parameter.
UsualValues(id) ==
  {v \in ArgValues(id) : ~isEmptyValue(v) /\ (id \in {"symbol", "pair"} => v.t = "string")}

RECURSIVE UsualTuples(_)
UsualTuples(ids) ==
  IF ids = <<>> THEN {<<>>}
  ELSE {<<v>> \o rest : v \in UsualValues(Head(ids)), rest \in UsualTuples(Tail(ids))}

\* The argument lists of the calls that are given an options object a
\* previous call has already used: those follow the documentation.
UsualCalls ==
  [c \in ClassNames |-> [n \in OwnNames[c] |-> UsualTuples(Resolved[c][n].params)]]

\* The argument lists each method of each class is called with.
Calls ==
  [c \in ClassNames |->
     [n \in OwnNames[c] |->
        ArgTuples(Resolved[c][n].params) \cup ReadmeCalls(Resolved[c][n])]]

(***************************************************************************)
(* State.                                                                  *)
(***************************************************************************)
VARIABLES
  client,    \* the configuration the client object holds
  call,      \* the method call that has just run, or NoCall
  options,   \* the options object of that call / the one the caller holds
  held,      \* does the caller hold on to that object?
  uses,      \* how many calls it has been passed to
  literal,   \* that object as the caller wrote it
  requests,  \* what the running call handed to the dispatcher
  built      \* the constructor call: its arguments, the caller's options
             \* object after it, and the configuration passed to super

vars == <<client, call, options, held, uses, literal, requests, built>>

\* Placeholder of the same shape as a method definition.
NoMethod ==
  [name |-> "", line |-> 0, params |-> <<>>, opt |-> FALSE, each |-> <<>>,
   validate |-> <<>>, via |-> "", verb |-> "", path |-> "", shape |-> "",
   assign |-> <<>>, docVerb |-> "", docPath |-> "", docReq |-> <<>>]

NoCall ==
  [cls |-> "", name |-> "", args |-> <<>>, batch |-> <<>>,
   how |-> "", before |-> <<>>, outcome |-> "none", missing |-> {}, ret |-> 0]

\* new Futures(apiKey, apiSecret, options)
Construct(in) ==
  /\ built = [apiKey |-> in[1], apiSecret |-> in[2], before |-> in[3],
              after |-> Futures(in[1], in[2], in[3]).options,
              config |-> Futures(in[1], in[2], in[3]).super]
  /\ client = APIBase(Futures(in[1], in[2], in[3]).super)
  /\ call = NoCall
  /\ options = <<>>
  /\ held = FALSE
  /\ uses = 0
  /\ literal = <<>>
  /\ requests = <<>>

Init == \E in \in ConstructorInputs : Construct(in)

(***************************************************************************)
(* client.<name>(...args, options): the caller omits options, passes a new *)
(* object literal, or passes the object it gave to its previous call.      *)
(***************************************************************************)
Invoke(clsName, cls, how) ==
  /\ call = NoCall
  /\ IF how = "same" THEN held /\ uses < MaxUses ELSE ~held
  /\ \E name \in MethodNames(cls) :
       LET m == Method(cls, name) IN
       /\ how # "omitted" => m.opt
       /\ \E args \in (IF how = "same" THEN UsualCalls ELSE Calls)[clsName][name] :
          \E batch \in BatchesFor(m, args) :
          \E given \in (IF how = "fresh" THEN OptionLiterals ELSE {options}) :
            LET r == Run(m, args, batch, given, client) IN
            /\ call' = [cls |-> clsName, name |-> name,
                        args |-> args, batch |-> batch, how |-> how, before |-> given,
                        outcome |-> r.outcome, missing |-> r.missing, ret |-> r.ret]
            /\ options' = r.options
            /\ requests' = r.requests
            /\ client' = r.client
            /\ held' = (how # "omitted")
            /\ uses' = IF how = "omitted" THEN 0 ELSE uses + 1
            /\ literal' = IF how = "fresh" THEN given ELSE literal
            /\ UNCHANGED built

CallAccount == \E how \in {"omitted", "fresh", "same"} : Invoke("Account", Account, how)

CallTrade == \E how \in {"omitted", "fresh", "same"} : Invoke("Trade", Trade, how)

CallTradeSecond ==
  \E how \in {"omitted", "fresh", "same"} : Invoke("TradeSecond", TradeSecond, how)

CallMarket == \E how \in {"omitted", "fresh", "same"} : Invoke("Market", Market, how)

\* The call has returned to the caller; an options object the caller did
\* not supply is unreachable from then on.
Return ==
  /\ call # NoCall
  /\ call' = NoCall
  /\ requests' = <<>>
  /\ options' = IF held THEN options ELSE <<>>
  /\ UNCHANGED <<client, held, uses, literal, built>>

\* The caller lets go of its options object.
Discard ==
  /\ call = NoCall
  /\ held
  /\ held' = FALSE
  /\ options' = <<>>
  /\ uses' = 0
  /\ literal' = <<>>
  /\ UNCHANGED <<client, call, requests, built>>

Next ==
  \/ CallAccount
  \/ CallTrade
  \/ CallTradeSecond
  \/ CallMarket
  \/ Return
  \/ Discard

Spec == Init /\ [][Next]_vars

(***************************************************************************)
(* The constructor in all its cases, followed by calls that pass no        *)
(* options object.                                                         *)
(***************************************************************************)
InitConstruct == \E in \in ConstructorCases : Construct(in)

CallMarketPlain == Invoke("Market", Market, "omitted")

CallTradePlain == Invoke("TradeSecond", TradeSecond, "omitted")

NextConstruct ==
  \/ CallMarketPlain
  \/ CallTradePlain
  \/ Return

SpecConstruct == InitConstruct /\ [][NextConstruct]_vars

(***************************************************************************)
(* Properties.                                                             *)
(***************************************************************************)
\* The method definition the call in progress resolved to.
Called == IF call = NoCall THEN NoMethod ELSE Resolved[call.cls][call.name]

Dispatched == call # NoCall /\ requests # <<>>

\* C1: a call that leaves a required positional parameter undefined fails
\* with MissingParameterError and never reaches the dispatcher.
C1_OmittedIsMissingParameterError ==
  (call # NoCall /\ \E i \in 1..Len(call.args) : call.args[i] = Undefined)
    => (call.outcome = "MissingParameterError" /\ requests = <<>>)

\* C2: no dispatched request carries one of the method's positional
\* parameters as undefined, null or the empty string.
C2_RequiredNonEmptyAtDispatch ==
  Dispatched =>
    \A i \in 1..Len(requests) : \A j \in 1..Len(Called.params) :
      ~isEmptyValue(Get(requests[i].params, Called.params[j]))

\* C3: every Account and Trade method dispatches through signRequest.
C3_TradeAccountSigned ==
  (Dispatched /\ call.cls \in {"Account", "Trade", "TradeSecond"})
    => \A i \in 1..Len(requests) : requests[i].via = "signRequest"

\* C4: every Market method dispatches through publicRequest, never signRequest.
C4_MarketUnsigned ==
  (Dispatched /\ call.cls = "Market")
    => \A i \in 1..Len(requests) : requests[i].via = "publicRequest"

C4_Witness ==
  /\ Dispatched
  /\ call.cls = "Market"
  /\ call.name = "basis"
  /\ requests[1].via = "publicRequest"

\* u is s with every a..z replaced by the capital letter and all else kept.
IsUpperCaseOf(u, s) ==
  /\ Len(u) = Len(s)
  /\ \A i \in 1..Len(s) :
       IF s[i] \in 97..122 THEN u[i] = s[i] - 32 ELSE u[i] = s[i]

\* C5: a positional symbol or pair is dispatched in upper case, and an
\* argument already in upper case is dispatched unchanged.
C5_PositionalSymbolUpperCased ==
  Dispatched =>
    \A i \in 1..Len(requests) : \A key \in {"symbol", "pair"} :
      Declared(Called, key) =>
        LET given == Arg(Called, call.args, key)
            sent  == Get(requests[i].params, key)
        IN /\ given.t = "string"
           /\ sent.t = "string"
           /\ IsUpperCaseOf(sent.s, given.s)
           /\ (\A c \in 1..Len(given.s) : given.s[c] \notin 97..122) => sent = given

C5_Witness ==
  /\ Dispatched
  /\ call.name = "cancelOrder"
  /\ Arg(Called, call.args, "symbol") = Str(LowerSymbol)
  /\ Get(requests[1].params, "symbol") = Str(UpperSymbol)

\* C6: the methods whose symbol is the optional options.symbol dispatch a
\* lower-case options.symbol in upper case.
C6_OptionalSymbolUpperCased ==
  ( /\ Dispatched
    /\ call.name \in {"exchangeInfo", "queryCurrentAllOpenOrders", "positionInformationV2",
                      "positionInformationV3", "adlQuantile", "forceOrders"}
    /\ Get(call.before, "symbol") = Str(LowerSymbol) )
    => \A i \in 1..Len(requests) : Get(requests[i].params, "symbol") = Str(UpperSymbol)

\* The parameter names a method writes itself.
OwnKeys(m) ==
  {m.assign[i].k : i \in 1..Len(m.assign)}
    \cup (IF m.shape = "exchangeInfo" THEN {"symbol", "symbols"} ELSE {})

\* C7: a dispatched parameter is either written by this call or is an entry
\* of the options object as the caller wrote it; nothing written by another
\* call shows up, also when the caller passes one object to several calls.
C7_CallsIsolated ==
  Dispatched =>
    \A i \in 1..Len(requests) : \A j \in 1..Len(requests[i].params) :
      LET e == requests[i].params[j]
      IN \/ e.k \in OwnKeys(Called)
         \/ Has(literal, e.k) /\ Get(literal, e.k) = e.v

\* C8: no method call changes the client's base URL, API key, API secret
\* or timeout.
C8_ClientImmutable == [][client' = client]_vars

C8_Witness ==
  /\ Dispatched
  /\ call.how = "same"
  /\ client = [apiKey |-> Str(<<>>), apiSecret |-> Str(<<115>>),
               baseURL |-> DefaultBaseURL, timeout |-> Num(1000)]

\* The endpoint module a class belongs to (Trade has two sources).
ModuleOf(c) == IF c = "TradeSecond" THEN "Trade" ELSE c

\* flowRight(...modules)(APIBase) applies the mixins right to left: the
\* first class of the list is the most derived one and wins a lookup.
Owner(classes, name) ==
  CHOOSE i \in 1..Len(classes) :
    /\ Defines(classes[i], name)
    /\ \A j \in 1..(i - 1) : ~Defines(classes[j], name)

\* Every order Object.values(restfulModules) may list the modules in, with
\* either source of the Trade module.
Compositions ==
  {c \in [1..3 -> ClassNames] :
     \A i, j \in 1..3 : i # j => ModuleOf(c[i]) # ModuleOf(c[j])}

Known(c, name) == \E i \in 1..Len(c) : Defines(c[i], name)

AllNames == UNION {OwnNames[c] : c \in ClassNames}

\* The modules whose class body defines a name.
Definers ==
  [n \in AllNames |-> {ModuleOf(c) : c \in {d \in ClassNames : Defines(d, n)}}]

\* The modules a name resolves to, over all composition orders.
Resolution ==
  [n \in AllNames |->
     {ModuleOf(c[Owner(c, n)]) : c \in {d \in Compositions : Known(d, n)}}]

Errors == {"MissingParameterError", "TypeError", "ReferenceError"}

\* C10: a call invokes the dispatcher once when it gets past validation and
\* normalisation and not at all when it throws, and returns the promise of
\* that one invocation.
C10_SingleAttempt ==
  call # NoCall =>
    /\ Len(requests) <= 1
    /\ (call.outcome = "dispatched") <=> (Len(requests) = 1)
    /\ (call.outcome \in Errors) <=> (requests = <<>>)
    /\ call.ret = Len(requests)

C10_Witness ==
  /\ call # NoCall
  /\ call.name = "placeMultipleOrder"
  /\ Len(call.batch) = MaxBatch
  /\ call.outcome = "dispatched"
  /\ Len(requests) = 1
  /\ call.ret = 1

\* Did every validateRequiredParameters call of the method in progress pass?
ValidationPassed ==
  /\ \A i \in 1..Len(Called.validate) : Declared(Called, Called.validate[i])
  /\ validateRequiredParameters(Shorthand(Called, call.args, Called.validate)) = {}
  /\ \A i \in 1..Len(call.batch) : ElementMissing(Called, call.batch[i]) = {}

\* C11: in a method that validates, a failed validation leaves the options
\* object as it was given and reaches no dispatcher; whenever the options
\* object was written or a request dispatched, all validation had passed.
C11_ValidateFirst ==
  (call # NoCall /\ (Called.validate # <<>> \/ Called.each # <<>>)) =>
    /\ call.outcome = "MissingParameterError" =>
         (options = call.before /\ requests = <<>>)
    /\ (options # call.before \/ requests # <<>>) => ValidationPassed

C11_Witness ==
  /\ call # NoCall
  /\ call.name = "newOrder"
  /\ call.how = "fresh"
  /\ call.args[1] = Str(LowerSymbol)
  /\ call.outcome = "MissingParameterError"
  /\ options = call.before
  /\ Has(options, "symbol")
  /\ requests = <<>>

\* C12: newOrder dispatches POST /fapi/v1/order, with either source of the
\* Trade module.
C12_NewOrderRealEndpoint ==
  (Dispatched /\ call.name = "newOrder") =>
    \A i \in 1..Len(requests) :
      requests[i].verb = "POST" /\ requests[i].path = "/fapi/v1/order"

\* C13: the README call newOrder(symbol, side, type, { price, quantity,
\* timeInForce }) dispatches a request carrying price, quantity and
\* timeInForce as top-level parameters.
C13_ReadmeOrderOptionsTopLevel ==
  (call # NoCall /\ call.name = "newOrder" /\ call.how = "omitted"
     /\ call.args[4] = ReadmeOrder) =>
    /\ Dispatched
    /\ \A i \in 1..Len(ReadmeOrderOptions) :
         /\ Has(requests[1].params, ReadmeOrderOptions[i].k)
         /\ Get(requests[1].params, ReadmeOrderOptions[i].k) = ReadmeOrderOptions[i].v

\* C14: an Account method (the language drops the arguments a method
\* declares no parameter for) dispatches exactly one GET request to its
\* documented path, with a timestamp parameter.
C14_AccountDispatchesDocumented ==
  (call # NoCall /\ call.cls = "Account") =>
    /\ Len(requests) = 1
    /\ requests[1].verb = "GET"
    /\ requests[1].path = Called.docPath
    /\ Has(requests[1].params, "timestamp")

\* The host of an "https://..." URL: what follows the scheme.
Host(url) == SubSeq(url, Len(Https) + 1, Len(url))

\* "fapi.binance.com"
FapiHost == <<102>> \o ReadmeBaseHost

C16_AdlQuantilePath ==
  (Dispatched /\ call.name = "adlQuantile") =>
    \A i \in 1..Len(requests) :
      requests[i].verb = "GET" /\ requests[i].path = "/fapi/v1/adlQuantile"

\* C17: modifyOrder dispatches PUT /fapi/v1/order with its third positional
\* argument under the parameter name quantity.
C17_ModifyOrderQuantity ==
  (Dispatched /\ call.name = "modifyOrder") =>
    \A i \in 1..Len(requests) :
      /\ requests[i].verb = "PUT"
      /\ requests[i].path = "/fapi/v1/order"
      /\ Has(requests[i].params, "quantity")
      /\ Get(requests[i].params, "quantity") = call.args[3]

\* C18: forceOrders called with a non-empty timestamp and no symbol
\* dispatches one GET request to /fapi/v1/forceOrders.
C18_ForceOrdersSymbolOptional ==
  (call # NoCall /\ call.name = "forceOrders" /\ ~isEmptyValue(call.args[1])
     /\ ~Has(call.before, "symbol")) =>
    /\ Len(requests) = 1
    /\ requests[1].verb = "GET"
    /\ requests[1].path = "/fapi/v1/forceOrders"

\* Do the definitions of a name defined twice in the Market class body
\* agree on verb and path?
MarketDefinitionsAgree ==
  \A i, j \in 1..Len(Market) :
    Market[i].name = Market[j].name =>
      (Market[i].verb = Market[j].verb /\ Market[i].path = Market[j].path)

\* C19: every Market method dispatches GET to exactly the path its
\* documentation comment states, and the definitions of a name defined twice
\* in the class body agree on verb and path.
C19_MarketVerbAndPath ==
  /\ MarketDefinitionsAgree
  /\ (Dispatched /\ call.cls = "Market") =>
       \A i \in 1..Len(requests) :
         /\ requests[i].verb = "GET"
         /\ Called.docVerb = "GET"
         /\ requests[i].path = Called.docPath

C19_Witness ==
  /\ Dispatched
  /\ call.cls = "Market"
  /\ call.name = "markklines"
  /\ Cardinality({i \in 1..Len(Market) : Market[i].name = "markklines"}) = 2
  /\ requests[1].verb = "GET"
  /\ requests[1].path = "/fapi/v1/markPriceKlines"

\* C20: no Trade method dispatches through signRequest a request whose
\* recvWindow is greater than 60000.
C20_RecvWindowAtMost60000 ==
  (Dispatched /\ call.cls \in {"Trade", "TradeSecond"}) =>
    \A i \in 1..Len(requests) :
      (requests[i].via = "signRequest" /\ Has(requests[i].params, "recvWindow")) =>
        /\ Get(requests[i].params, "recvWindow").t = "number"
        /\ Get(requests[i].params, "recvWindow").s[1] <= 60000

\* C21: when the constructor is given options with a non-empty baseURL, the
\* configuration passed to the base client has exactly that baseURL, and
\* every other key of options with the caller's value.
C21_BaseURLAndSettingsForwarded ==
  (Has(built.before, "baseURL") /\ ~Falsy(Get(built.before, "baseURL"))) =>
    \A i \in 1..Len(built.before) :
      /\ Has(built.config, built.before[i].k)
      /\ Get(built.config, built.before[i].k) = built.before[i].v

C21_Witness ==
  /\ Dispatched
  /\ Get(built.before, "baseURL") = TestnetURL
  /\ Get(built.config, "baseURL") = TestnetURL
  /\ Get(built.config, "timeout") = Num(1000)

\* C23: the options object the caller gave to the constructor, and the one
\* it gave to a method call, hold the same keys and values afterwards.
C23_CallerOptionsUntouched ==
  /\ built.after = built.before
  /\ (call # NoCall /\ call.how # "omitted") => options = call.before

\* C24: a call that throws (validation or normalisation) leaves the options
\* object it was given exactly as it was.
C24_FailedCallLeavesOptions ==
  (call # NoCall /\ call.how # "omitted" /\ call.outcome \in Errors) =>
    options = call.before

\* C27: the configuration passed to the base client holds the constructor's
\* first and second arguments as apiKey and apiSecret ("" when omitted),
\* whatever keys options has.
C27_CredentialsArePositional ==
  /\ Get(built.config, "apiKey") =
       (IF built.apiKey.t = "undefined" THEN Str(<<>>) ELSE built.apiKey)
  /\ Get(built.config, "apiSecret") =
       (IF built.apiSecret.t = "undefined" THEN Str(<<>>) ELSE built.apiSecret)

\* The parameters of a dispatched request are the options object as given
\* plus the positional parameters: the keys are exactly those, an options
\* key that is no positional parameter (and not in exempt) has the caller's
\* value, and a positional parameter has the argument's value, upper-cased
\* or as given.
MergedAsGiven(exempt) ==
  (Dispatched /\ Called.opt) =>
    \A i \in 1..Len(requests) :
      LET p   == requests[i].params
          req == {Called.params[j] : j \in 1..Len(Called.params)}
      IN /\ Keys(p) = Keys(call.before) \cup req
         /\ \A j \in 1..Len(call.before) :
              (call.before[j].k \notin req \cup exempt) =>
                Get(p, call.before[j].k) = call.before[j].v
         /\ \A j \in 1..Len(Called.params) :
              \/ Get(p, Called.params[j]) = call.args[j]
              \/ /\ call.args[j].t = "string"
                 /\ Get(p, Called.params[j]) = Str(ToUpperCase(call.args[j].s))

\* C22 (as stated): every method that accepts options dispatches the keys
\* of options plus its required parameters, every other options key with
\* the caller's value, and a positional argument over a same-named key.
C22_MergedParametersStrict == MergedAsGiven({})

\* C22 (amended): the same, except that exchangeInfo dispatches
\* options.symbol and options.symbols upper-cased.
C22_MergedParameters ==
  MergedAsGiven(IF call.name = "exchangeInfo" THEN {"symbol", "symbols"} ELSE {})

C22_Witness ==
  /\ Dispatched
  /\ call.name = "openInterestHist"
  /\ call.how = "fresh"
  /\ Get(call.before, "symbol") = Str(LowerSymbol)
  /\ call.args[1] = Str(UpperSymbol)
  /\ Get(requests[1].params, "symbol") = Str(UpperSymbol)
  /\ Get(requests[1].params, "limit") = Num(5)

\* C25: a request a Trade method routes through signRequest carries a
\* timestamp that is not undefined, null or "" and is the positional
\* timestamp argument, also when options has a timestamp key of its own.
C25_SignedTimestampIsPositional ==
  (Dispatched /\ call.cls \in {"Trade", "TradeSecond"}) =>
    \A i \in 1..Len(requests) :
      requests[i].via = "signRequest" =>
        /\ Declared(Called, "timestamp")
        /\ ~isEmptyValue(Get(requests[i].params, "timestamp"))
        /\ Get(requests[i].params, "timestamp") = Arg(Called, call.args, "timestamp")

C25_Witness ==
  /\ Dispatched
  /\ call.cls = "Trade"
  /\ call.name = "cancelOrder"
  /\ requests[1].via = "signRequest"
  /\ Get(call.before, "timestamp") = Num(9)
  /\ Arg(Called, call.args, "timestamp") = Num(1)
  /\ Get(requests[1].params, "timestamp") = Num(1)

\* const { symbol, side, ... } = batchOrders[i]: the fields each method reads.
BatchElementFields(name) ==
  IF name = "placeMultipleOrder" THEN {"symbol", "side", "type", "quantity"}
  ELSE {"symbol", "side", "quantity", "price", "timestamp"}

\* C26: placeMultipleOrder and modifyMultipleOrder dispatch only if every
\* element of batchOrders has its required fields non-empty and the top-level
\* timestamp is non-empty; one invalid element at any position means no
\* dispatch at all, and a valid batch means exactly one request whose
\* batchOrders parameter is the list that was passed.
C26_BatchValidatedBeforeDispatch ==
  (call # NoCall /\ call.name \in {"placeMultipleOrder", "modifyMultipleOrder"}) =>
    LET list  == Arg(Called, call.args, "batchOrders")
        valid == /\ list.t = "ref"
                 /\ \A i \in 1..Len(call.batch) :
                      \A f \in BatchElementFields(call.name) :
                        ~isEmptyValue(Get(call.batch[i], f))
                 /\ ~isEmptyValue(Arg(Called, call.args, "timestamp"))
    IN IF valid
       THEN /\ call.outcome = "dispatched"
            /\ Len(requests) = 1
            /\ Get(requests[1].params, "batchOrders") = list
            /\ Get(requests[1].params, "timestamp") = Arg(Called, call.args, "timestamp")
       ELSE /\ call.outcome # "dispatched"
            /\ requests = <<>>

C26_Witness ==
  /\ call # NoCall
  /\ call.name = "placeMultipleOrder"
  /\ call.batch = <<OrderComplete, OrderNoQuantity>>
  /\ ~isEmptyValue(call.args[2])
  /\ call.outcome = "MissingParameterError"
  /\ requests = <<>>

\* The keys of an object in insertion order.
KeyOrder(obj) == [i \in 1..Len(obj) |-> obj[i].k]

\* The keys of the method's parameter literal, in the order it is written.
LiteralKeys(m) == [i \in 1..Len(m.assign) |-> m.assign[i].k]

\* A call whose options object no earlier call has touched (a new literal or
\* the default {}) has reached the dispatcher with a parameter object.
FirstUseDispatched ==
  /\ Dispatched
  /\ call.how \in {"fresh", "omitted"}
  /\ requests[1].arg # "none"

\* C28 as stated: the dispatcher is handed the operation's verb and path and
\* a parameter mapping whose keys are the caller's optional keys in the
\* caller's order followed by the required parameters in the operation's
\* fixed order.
C28_OptionalThenRequired ==
  FirstUseDispatched =>
    /\ Len(requests) = 1
    /\ requests[1].verb = Called.verb
    /\ requests[1].path = Called.path
    /\ KeyOrder(requests[1].params) =
         SelectSeq(KeyOrder(call.before),
                   LAMBDA k : \A i \in 1..Len(Called.assign) : Called.assign[i].k # k)
         \o LiteralKeys(Called)

\* C28, amended: the handed request is determined by the operation and the
\* arguments alone: the operation's verb and path, and a parameter mapping
\* whose keys are all of the caller's keys in the caller's order (a key named
\* like a required parameter keeps the place the caller gave it) followed by
\* the required parameters the caller's object did not contain, in the order
\* of the operation's literal.
C28_CallerKeysThenNewRequired ==
  FirstUseDispatched =>
    /\ Len(requests) = 1
    /\ requests[1].verb = Called.verb
    /\ requests[1].path = Called.path
    /\ KeyOrder(requests[1].params) =
         KeyOrder(call.before)
         \o SelectSeq(LiteralKeys(Called), LAMBDA k : ~Has(call.before, k))

C28_Witness ==
  /\ FirstUseDispatched
  /\ call.name = "modifyIsolatedMargin"
  /\ call.how = "fresh"
  /\ KeyOrder(call.before) = <<"symbol", "limit", "timestamp", "recvWindow", "symbols">>
  /\ KeyOrder(requests[1].params) =
       <<"symbol", "limit", "timestamp", "recvWindow", "symbols", "amount", "type">>

\* options.symbol is a string and options.symbols an array, where present:
\* the types the documentation comment of exchangeInfo gives.
ExchangeInfoOptionsTyped(o) ==
  /\ Has(o, "symbol") => Get(o, "symbol").t = "string"
  /\ Has(o, "symbols") => Get(o, "symbols").t = "array"

\* C29: exchangeInfo dispatches GET /fapi/v1/exchangeInfo through the public
\* dispatcher with the caller's keys, where symbol is upper-cased, every
\* element of symbols is upper-cased and every other option is unchanged;
\* called with no argument it dispatches an empty parameter set.
C29_ExchangeInfo ==
  (call # NoCall /\ call.name = "exchangeInfo" /\ ExchangeInfoOptionsTyped(call.before)) =>
    /\ call.outcome = "dispatched"
    /\ Len(requests) = 1
    /\ requests[1].via = "publicRequest"
    /\ requests[1].verb = "GET"
    /\ requests[1].path = "/fapi/v1/exchangeInfo"
    /\ Len(requests[1].params) = Len(call.before)
    /\ \A i \in 1..Len(call.before) :
         LET given == call.before[i]
             sent  == requests[1].params[i]
         IN /\ sent.k = given.k
            /\ sent.v = IF given.k = "symbol" THEN Str(ToUpperCase(given.v.s))
                        ELSE IF given.k = "symbols"
                        THEN Arr([j \in 1..Len(given.v.a) |-> ToUpperCase(given.v.a[j])])
                        ELSE given.v
    /\ call.how = "omitted" => requests[1].params = <<>>

C29_Witness ==
  /\ Dispatched
  /\ call.name = "exchangeInfo"
  /\ call.how = "fresh"
  /\ Get(call.before, "symbol") = Str(LowerSymbol)
  /\ Get(call.before, "symbols") = Arr(<<LowerSymbol, UpperSymbol>>)
  /\ Get(requests[1].params, "symbol") = Str(UpperSymbol)
  /\ Get(requests[1].params, "symbols") = Arr(<<UpperSymbol, UpperSymbol>>)
  /\ Get(requests[1].params, "limit") = Num(5)
====
